---- MODULE Spec2Model ----
(***************************************************************************)
(* State-machine model of the chain-abci application (ChainNodeApp): the   *)
(* ABCI handlers InitChain / Info / CheckTx / BeginBlock / DeliverTx /     *)
(* EndBlock / Commit, the buffered key-value store, the account trie and   *)
(* the enclave bridge (tx-validation app, enclave_u).                      *)
(*                                                                         *)
(* Modelling conventions                                                   *)
(*  - Option<T> is a sequence of length 0 (None) or 1 (Some(x)).           *)
(*  - A BTreeMap is a function whose DOMAIN is the key set; keys are       *)
(*    integers so that iteration order is the integer order.               *)
(*  - A hash (tx id, account root, app hash) is modelled by the hashed     *)
(*    content itself (collision freedom).                                  *)
(*  - A panic / expect / unreachable! sets halted; only Restart leaves it. *)
(***************************************************************************)
EXTENDS Integers, Sequences, FiniteSets, TLC

----------------------------------------------------------------------------
\* Bounds of the exploration

MaxHeight == 3

\* what the environment does to the chain over its whole history: accepted
\* transactions, blocks in which some validator misbehaved (byzantine
\* evidence or a missed vote) and transactions sealed by the enclave that are
\* not part of the chain
MaxEvents == 2

\* entries of byzantine evidence in one BeginBlock request
MaxEvidence == 2

----------------------------------------------------------------------------
\* Option, map and sequence helpers

None == <<>>

Some(x) == <<x>>

IsSome(o) == Len(o) = 1

Unwrap(o) == o[1]

EmptyMap == <<>>

MapPut(m, k, v) == [x \in (DOMAIN m) \cup {k} |-> IF x = k THEN v ELSE m[x]]

MapRemove(m, k) == [x \in (DOMAIN m) \ {k} |-> m[x]]

MapGet(m, k) == IF k \in DOMAIN m THEN Some(m[k]) ELSE None

Min(a, b) == IF a < b THEN a ELSE b

Max(a, b) == IF a > b THEN a ELSE b

RECURSIVE SortedKeys(_)
\* keys of a BTreeMap in iteration (ascending) order
SortedKeys(S) ==
  IF S = {} THEN <<>>
  ELSE LET k == CHOOSE x \in S : \A y \in S : x <= y
       IN <<k>> \o SortedKeys(S \ {k})

RECURSIVE SumSeq(_)
SumSeq(s) == IF s = <<>> THEN 0 ELSE Head(s) + SumSeq(Tail(s))

RECURSIVE SumOver(_, _)
\* sum of f[x] over x in S
SumOver(f, S) ==
  IF S = {} THEN 0
  ELSE LET x == CHOOSE y \in S : TRUE IN f[x] + SumOver(f, S \ {x})

----------------------------------------------------------------------------
\* Genesis configuration and environment

\* staking addresses (StakedStateAddress)
Addrs == {1, 2}

\* consensus public keys; the tendermint validator address of a node is
\* derived injectively from its consensus_pubkey and is modelled by the key
PubKeys == {1, 2}

\* hard cap of the coin type
MAX_COIN == 8

\* InitConfig of the InitChain request: address 1 is a council node with a
\* bonded balance, address 2 holds an unbonded balance
GenesisConf ==
  [ distribution    |-> [a \in Addrs |-> IF a = 1 THEN [bonded |-> TRUE, amount |-> 3]
                                                  ELSE [bonded |-> FALSE, amount |-> 3]],
    rewards_pool    |-> 2,
    council_nodes   |-> [a \in {1} |-> [staking_account_address |-> 1, consensus_pubkey |-> 1]],
    network_params  |->
      [ fee_constant               |-> 0,
        fee_coefficient            |-> 1,
        required_council_node_stake |-> 2,
        unbonding_period           |-> 1,
        jail_duration              |-> 1,
        block_signing_window       |-> 2,
        missed_block_threshold     |-> 1,
        liveness_slash_percent     |-> 500,
        byzantine_slash_percent    |-> 1000,
        slash_wait_period          |-> 2 ] ]

\* the same configuration with the rewards pool raised by one coin
BadGenesisConf == [GenesisConf EXCEPT !.rewards_pool = @ + 1]

\* the same configuration with the balance of address 2 bonded: a staking
\* account with the required stake that is no council node
StakerGenesisConf == [GenesisConf EXCEPT !.distribution[2].bonded = TRUE]

----------------------------------------------------------------------------
\* StakedState: the staking account record and its operations

\* StakedState::new_init_bonded / the default account of the genesis
\* distribution
NewAccount(address, bonded, unbonded, unbonded_from, council_node) ==
  [ address       |-> address,
    nonce         |-> 0,
    bonded        |-> bonded,
    unbonded      |-> unbonded,
    unbonded_from |-> unbonded_from,
    jailed_until  |-> None,
    punishment    |-> None,
    council_node  |-> council_node ]

new_init_bonded(amount, time, address, council_node) ==
  NewAccount(address, amount, 0, time, council_node)

is_jailed(account) == IsSome(account.jailed_until)

\* credit bonded, bump nonce
deposit(account, amount) ==
  [account EXCEPT !.nonce = @ + 1, !.bonded = @ + amount]

\* zero the unbonded portion, bump nonce
withdraw(account) ==
  [account EXCEPT !.nonce = @ + 1, !.unbonded = 0]

\* move value from bonded to unbonded (the fee leaves bonded too), bump nonce
unbond(account, value, fee, unbonded_from) ==
  [account EXCEPT !.nonce = @ + 1,
                  !.bonded = @ - (value + fee),
                  !.unbonded = @ + value,
                  !.unbonded_from = unbonded_from]

\* a faulty unjail: the account stays jailed
unjail_stays_jailed(account) == [account EXCEPT !.nonce = @ + 1]

\* clear jailed_until and punishment, bump nonce
unjail(account) ==
  [account EXCEPT !.nonce = @ + 1, !.jailed_until = None, !.punishment = None]

\* attach council_node, bump nonce
node_join(account, node) ==
  [account EXCEPT !.nonce = @ + 1, !.council_node = Some(node)]

\* set jailed_until and record the punishment
jail_until(account, time, kind) ==
  [account EXCEPT !.jailed_until = Some(time),
                  !.punishment = Some([kind |-> kind, jailed_until |-> time,
                                       slash_amount |-> None])]

\* slash = bonded * ratio (ratio in thousandths), saturating to bonded
SlashAmount(account, ratio) == Min(account.bonded, (account.bonded * ratio) \div 1000)

----------------------------------------------------------------------------
\* Transactions (TxAux) as delivered in RequestCheckTx / RequestDeliverTx

\* bytes that TxAux::decode rejects
GarbageTx == [kind |-> "garbage"]

\* TxoPointer
TxoPointer(id, index) == [id |-> id, index |-> index]

TransferTx(inputs, outputs, ok) ==
  [kind |-> "TransferTx", inputs |-> inputs, outputs |-> outputs, witness_ok |-> ok]

DepositStakeTx(inputs, to, ok) ==
  [kind |-> "DepositStakeTx", inputs |-> inputs, to_staked_account |-> to, witness_ok |-> ok]

WithdrawUnbondedStakeTx(from, nonce, outputs, ok) ==
  [kind |-> "WithdrawUnbondedStakeTx", from |-> from, nonce |-> nonce,
   outputs |-> outputs, witness_ok |-> ok]

UnbondStakeTx(from, nonce, value, ok) ==
  [kind |-> "UnbondStakeTx", from |-> from, nonce |-> nonce, value |-> value, witness_ok |-> ok]

UnjailTx(from, nonce, ok) ==
  [kind |-> "UnjailTx", from |-> from, nonce |-> nonce, witness_ok |-> ok]

NodeJoinTx(from, nonce, pubkey, ok) ==
  [kind |-> "NodeJoinTx", from |-> from, nonce |-> nonce,
   node |-> [staking_account_address |-> from, consensus_pubkey |-> pubkey],
   witness_ok |-> ok]

HasOutputs(tx) == tx.kind \in {"TransferTx", "WithdrawUnbondedStakeTx"}

\* TxAux::tx_id: the hash of the transaction body, which excludes the witness
tx_id(tx) == [k \in (DOMAIN tx) \ {"witness_ok"} |-> tx[k]]

\* encoded size of a transaction, the argument of calculate_fee; every
\* transaction of the model has the same size
TxLen(tx) == 1


\* a BitVec written with to_bytes: a whole number of bytes, all bits clear
FreshBitVec(n) == [i \in 1..(((n + 7) \div 8) * 8) |-> FALSE]

----------------------------------------------------------------------------
\* State

VARIABLES
  last_state,                      \* Option<ChainNodeState>
  uncommitted_account_root_hash,   \* account trie root after DeliverTx
  delivered_txs,                   \* Vec<TxAux> of the block in progress
  genesis_app_hash,                \* operator-provided expected hash
  validator_voting_power,          \* BTreeMap<StakedStateAddress, power>
  validator_pubkeys,               \* BTreeMap<StakedStateAddress, PubKey>
  power_changed_in_block,          \* BTreeMap<StakedStateAddress, power>
  new_nodes_in_block,              \* BTreeMap<StakedStateAddress, CouncilNode>
  rewards_pool_updated,            \* bool
  db_last_state,                   \* COL_NODE_INFO / LAST_STATE_KEY (persisted)
  db_tx_meta,                      \* COL_TX_META (persisted): tx id -> bitset
  db_buffered,                     \* write_buffered overlay of COL_TX_META
  txdb,                            \* enclave-side store of sealed transactions
  faults,                          \* environment: blocks with a misbehaving validator so far
  req,                             \* history: the request the response in flight answers
  committed_txs,                   \* history: the transactions of the committed blocks
  phase,                           \* position in the ABCI call order
  resp,                            \* the response of the last request
  halted,                          \* the process aborted (panic)
  tracker,                         \* Option<LivenessTracker>: a tracker on its own
  tracker_window,                  \* history: block_signing_window given to new
  tracker_call,                    \* history: the last call on the tracker
  milli_a,                         \* Milli: the first operand, in millis
  milli_b,                         \* Milli: the second operand, in millis
  overflow_checks,                 \* the build aborts on integer overflow
  milli_call,                      \* history: the last Milli or fee computation
  ledger,                          \* environment: the transactions of the blocks so far
  wallet_states,                   \* WalletState of each wallet, as stored
  synced,                          \* per wallet: the transactions handled so far
  wallet_call,                     \* history: the last handle_blocks and its batch
  connection_state,                \* Arc<Mutex<ConnectionState>> of the websocket client
  connection_handle,               \* monitor: Option<JoinHandle> of the loop thread
  monitor_pc,                      \* monitor: position in its loop
  new_connection_state,            \* monitor: the state computed by the match
  new_connection_handle,           \* monitor: the handle computed by the match
  loop_threads,                    \* the websocket loop threads spawned so far
  loop_sender,                     \* loop thread: the sender taken from channel_map
  websocket_writer,                \* Arc<Mutex<Writer>>: the connection written to
  channel_map,                     \* HashMap<request id, SyncSender>: its keys
  receivers,                       \* the request ids whose Receiver is alive
  channels,                        \* the request ids whose channel holds the response
  wire,                            \* requests written whose response the loop has not read
  requester,                       \* the requesting thread
  next_id,                         \* the requests made so far
  ws_call,                         \* history: the last send_response of the loop
  core,                            \* AutoSynchronizerCore: state, max_height, wallets, current_wallet
  heights,                         \* storage: last_block_height of each wallet
  queue,                           \* AutoSyncSendQueue: the send queue is Some
  outstanding,                     \* requests sent to the node and not answered
  core_halted,                     \* the thread of the core panicked
  sync_call                        \* history: the last turn of the core's loop

app_vars ==
  << last_state, uncommitted_account_root_hash, delivered_txs, genesis_app_hash,
     validator_voting_power, validator_pubkeys, power_changed_in_block,
     new_nodes_in_block, rewards_pool_updated >>

db_vars == << db_last_state, db_tx_meta, db_buffered >>

tracker_vars == << tracker, tracker_window, tracker_call >>

milli_vars == << milli_a, milli_b, overflow_checks, milli_call >>

wallet_vars == << ledger, wallet_states, synced, wallet_call >>

monitor_vars == << connection_state, connection_handle, monitor_pc, new_connection_state, new_connection_handle >>

ws_vars == << monitor_vars, loop_threads, loop_sender, websocket_writer, channel_map, receivers, channels, wire, requester, next_id, ws_call >>

sync_vars == << core, heights, queue, outstanding, core_halted, sync_call >>

\* the variables of the client's network side
client_vars == << ws_vars, sync_vars >>

\* the variables of the components that are exercised on their own
pure_vars == << tracker_vars, milli_vars, wallet_vars, client_vars >>

\* no call was made on the tracker
NoCall == [op |-> "none"]

\* the connection carries no response: the last one was read by the client
NoResponse == [op |-> "none"]

\* requests are served one at a time: the client sends the next request
\* after it read the response to the previous one
NoResponseInFlight == resp = NoResponse

vars == << last_state, uncommitted_account_root_hash, delivered_txs, genesis_app_hash,
           validator_voting_power, validator_pubkeys, power_changed_in_block,
           new_nodes_in_block, rewards_pool_updated,
           db_last_state, db_tx_meta, db_buffered, txdb, faults, req, committed_txs,
           phase, resp, halted, tracker, tracker_window, tracker_call,
           milli_a, milli_b, overflow_checks, milli_call,
           ledger, wallet_states, synced, wallet_call, client_vars >>

----------------------------------------------------------------------------
\* Storage

\* db.get(COL_TX_META, id): buffered writes shadow the persisted column
db_get(id) ==
  IF id \in DOMAIN db_buffered THEN Some(db_buffered[id])
  ELSE IF id \in DOMAIN db_tx_meta THEN Some(db_tx_meta[id])
  ELSE None

\* get_account(address, root, accounts)
get_account(address, root) == MapGet(root, address)

\* a faulty update_account: the account is not stored, the root stays
update_account_not_stored(account, account_root_hash) ==
  [ root |-> account_root_hash, maccount |-> Some(account) ]

\* update_account: insert_one against the given root, returning the new root
update_account(account, account_root_hash) ==
  [ root |-> MapPut(account_root_hash, account.address, account),
    maccount |-> Some(account) ]

\* 256-bit hash over (txs_root, account_root, rewards_pool, network_params)
compute_app_hash(tx_tree, account_root, rewards_pool, network_params) ==
  [ txs |-> tx_tree, account_root |-> account_root,
    rewards_pool |-> rewards_pool, network_params |-> network_params ]

\* network_params.calculate_fee(len): LinearFee over the encoded size
calculate_fee(network_params, len) ==
  network_params.fee_constant + network_params.fee_coefficient * len

----------------------------------------------------------------------------
\* Transaction validation: the dispatcher (storage::tx::verify), the enclave
\* and the enclave bridge (enclave_u::check_tx)

VerifyOk(fee, account, db) ==
  [ok |-> TRUE, err |-> "", fee |-> fee, account |-> account, txdb |-> db, panic |-> FALSE]

VerifyErr(e, db) ==
  [ok |-> FALSE, err |-> e, fee |-> 0, account |-> None, txdb |-> db, panic |-> FALSE]

VerifyPanic(db) ==
  [ok |-> FALSE, err |-> "panic", fee |-> 0, account |-> None, txdb |-> db, panic |-> TRUE]

\* an input exists and is unspent in the UTXO spend map
InputUnspent(ptr) ==
  LET bv == db_get(ptr.id)
  IN /\ IsSome(bv)
     /\ ptr.index < Len(ptr.id.outputs)
     /\ ~Unwrap(bv)[ptr.index + 1]

InputValue(ptr) == ptr.id.outputs[ptr.index + 1]

InputCoins(inputs) == SumOver([p \in inputs |-> InputValue(p)], inputs)

\* the verdict of the enclave for a ValidateTx request (ecall_check_tx)
EnclaveValidate(tx, info, account, sgx_ok) ==
  IF ~sgx_ok THEN [tag |-> "SgxError"]
  ELSE IF ~tx.witness_ok THEN [tag |-> "Err", err |-> "ValidationError"]
  ELSE CASE tx.kind = "TransferTx" ->
              IF InputCoins(tx.inputs) < SumSeq(tx.outputs) + info.min_fee_computed
              THEN [tag |-> "Err", err |-> "InvalidInput"]
              ELSE [tag |-> "TxWithOutputs",
                    paid_fee |-> InputCoins(tx.inputs) - SumSeq(tx.outputs)]
         [] tx.kind = "DepositStakeTx" ->
              IF InputCoins(tx.inputs) < info.min_fee_computed
              THEN [tag |-> "Err", err |-> "InvalidInput"]
              ELSE [tag |-> "DepositStakeTx", input_coins |-> InputCoins(tx.inputs)]
         [] tx.kind = "WithdrawUnbondedStakeTx" ->
              IF Unwrap(account).unbonded < SumSeq(tx.outputs) + info.min_fee_computed
              THEN [tag |-> "Err", err |-> "InvalidInput"]
              ELSE [tag |-> "TxWithOutputs",
                    paid_fee |-> Unwrap(account).unbonded - SumSeq(tx.outputs)]

\* a faulty deposit_amount: the fee is credited to the account as well
deposit_amount_fee_kept(input_coins, info) == input_coins

\* the amount credited by a deposit: (input_coins - min_fee_computed)
deposit_amount(input_coins, info) == input_coins - info.min_fee_computed

\* enclave_u::check_tx: interpret the enclave response for a ValidateTx
\* request carrying (tx, info, account); db is the sealed-transaction store
check_tx(tx, info, account, response, db) ==
  CASE response.tag = "TxWithOutputs" ->
         VerifyOk(response.paid_fee,
                  IF IsSome(account) THEN Some(withdraw(Unwrap(account))) ELSE None,
                  db \cup {tx_id(tx)})
    [] response.tag = "DepositStakeTx" ->
         IF response.input_coins < info.min_fee_computed
         THEN VerifyPanic(db)
         ELSE LET amount == deposit_amount(response.input_coins, info)
              IN VerifyOk(info.min_fee_computed,
                          IF IsSome(account)
                          THEN Some(deposit(Unwrap(account), amount))
                          ELSE Some(new_init_bonded(amount, info.previous_block_time,
                                                    tx.to_staked_account, None)),
                          db)
    [] response.tag = "Err" -> VerifyErr(response.err, db)
    [] OTHER -> VerifyErr("EnclaveRejected", db)

\* consensus public keys bound to some account in the trie
BoundPubKeys(root) ==
  { Unwrap(root[a].council_node).consensus_pubkey :
      a \in {b \in DOMAIN root : IsSome(root[b].council_node)} }

\* verify(tx, chain_info, account_root, db, accounts) -> (fee, updated_account?)
verify(tx, info, network_params, root, sgx_ok, db) ==
  CASE tx.kind = "TransferTx" ->
         IF \E p \in tx.inputs : ~InputUnspent(p) THEN VerifyErr("InvalidInput", db)
         ELSE check_tx(tx, info, None, EnclaveValidate(tx, info, None, sgx_ok), db)
    [] tx.kind = "DepositStakeTx" ->
         LET account == get_account(tx.to_staked_account, root)
         IN IF \E p \in tx.inputs : ~InputUnspent(p) THEN VerifyErr("InvalidInput", db)
            ELSE IF IsSome(account) /\ is_jailed(Unwrap(account))
            THEN VerifyErr("InvalidInput", db)
            ELSE check_tx(tx, info, account, EnclaveValidate(tx, info, account, sgx_ok), db)
    [] tx.kind = "WithdrawUnbondedStakeTx" ->
         LET account == get_account(tx.from, root)
         IN IF ~IsSome(account) THEN VerifyErr("InvalidInput", db)
            ELSE IF is_jailed(Unwrap(account)) THEN VerifyErr("InvalidInput", db)
            ELSE IF info.previous_block_time < Unwrap(account).unbonded_from
            THEN VerifyErr("InvalidInput", db)
            ELSE check_tx(tx, info, account, EnclaveValidate(tx, info, account, sgx_ok), db)
    [] tx.kind = "UnbondStakeTx" ->
         LET account == get_account(tx.from, root)
         IN IF ~IsSome(account) THEN VerifyErr("InvalidInput", db)
            ELSE IF is_jailed(Unwrap(account)) THEN VerifyErr("InvalidInput", db)
            ELSE IF ~tx.witness_ok THEN VerifyErr("ValidationError", db)
            ELSE IF Unwrap(account).bonded < tx.value + info.min_fee_computed
            THEN VerifyErr("InvalidInput", db)
            ELSE VerifyOk(info.min_fee_computed,
                          Some(unbond(Unwrap(account), tx.value, info.min_fee_computed,
                                      info.previous_block_time + info.unbonding_period)),
                          db)
    [] tx.kind = "UnjailTx" ->
         LET account == get_account(tx.from, root)
         IN IF ~IsSome(account) THEN VerifyErr("InvalidInput", db)
            ELSE IF ~is_jailed(Unwrap(account)) THEN VerifyErr("InvalidInput", db)
            ELSE IF info.previous_block_time < Unwrap(Unwrap(account).jailed_until)
            THEN VerifyErr("InvalidInput", db)
            ELSE IF ~tx.witness_ok THEN VerifyErr("ValidationError", db)
            ELSE VerifyOk(0, Some(unjail(Unwrap(account))), db)
    [] tx.kind = "NodeJoinTx" ->
         LET account == get_account(tx.from, root)
         IN IF ~IsSome(account) THEN VerifyErr("InvalidInput", db)
            ELSE IF is_jailed(Unwrap(account)) THEN VerifyErr("InvalidInput", db)
            ELSE IF Unwrap(account).bonded < network_params.required_council_node_stake
            THEN VerifyErr("InvalidInput", db)
            ELSE IF tx.node.consensus_pubkey \in BoundPubKeys(root)
            THEN VerifyErr("InvalidInput", db)
            ELSE IF ~tx.witness_ok THEN VerifyErr("ValidationError", db)
            ELSE VerifyOk(0, Some(node_join(Unwrap(account), tx.node)), db)

\* a faulty ChainInfo: the time of the block in progress is not passed on
ChainInfo_genesis_time(state, min_fee) ==
  [min_fee_computed |-> min_fee,
   previous_block_time |-> 0,
   unbonding_period |-> state.network_params.unbonding_period]

\* ChainInfo handed to verify: previous_block_time is the block_time of the
\* state, which begin_block sets to the time of the block in progress
ChainInfo(state, min_fee) ==
  [min_fee_computed |-> min_fee,
   previous_block_time |-> state.block_time,
   unbonding_period |-> state.network_params.unbonding_period]

\* a faulty verification_failed: nothing is logged
verification_failed_silent(err) == ""

\* the log of a failed verification: format!("verification failed: {}", err)
verification_failed(err) == "verification failed: " \o err

\* validate_tx_req: parse the request bytes and validate the transaction;
\* returns the response code and log and Some((txaux, (fee, account)))
validate_tx_req(tx, sgx_ok) ==
  IF tx.kind = "garbage"
  THEN [code |-> 1, log |-> "failed to deserialize tx: bad input", ok |-> FALSE,
        fee |-> 0, account |-> None, txdb |-> txdb, panic |-> FALSE]
  ELSE IF ~IsSome(last_state)
  THEN [code |-> 0, log |-> "", ok |-> FALSE,
        fee |-> 0, account |-> None, txdb |-> txdb, panic |-> TRUE]
  ELSE LET state == Unwrap(last_state)
           min_fee == calculate_fee(state.network_params, TxLen(tx))
           info == ChainInfo(state, min_fee)
           fee_paid == verify(tx, info, state.network_params,
                              uncommitted_account_root_hash, sgx_ok, txdb)
       IN IF fee_paid.panic
          THEN [code |-> 0, log |-> "", ok |-> FALSE,
                fee |-> 0, account |-> None, txdb |-> fee_paid.txdb, panic |-> TRUE]
          ELSE IF fee_paid.ok
          THEN [code |-> 0, log |-> "", ok |-> TRUE,
                fee |-> fee_paid.fee, account |-> fee_paid.account,
                txdb |-> fee_paid.txdb, panic |-> FALSE]
          ELSE [code |-> 1, log |-> verification_failed(fee_paid.err), ok |-> FALSE,
                fee |-> 0, account |-> None, txdb |-> fee_paid.txdb, panic |-> FALSE]

----------------------------------------------------------------------------
\* Construction and InitChain

\* the fixed total supply of the genesis distribution
TotalSupply == MAX_COIN

\* a faulty validation: the total of the configuration is not compared with
\* the total supply
validate_config_stake_only(conf) ==
  \A a \in DOMAIN conf.council_nodes :
    /\ a \in DOMAIN conf.distribution
    /\ conf.distribution[a].bonded
    /\ conf.distribution[a].amount >= conf.network_params.required_council_node_stake

\* InitConfig::validate_config_get_genesis: the balances and the rewards pool
\* add up to the total supply and every council node is bonded with at least
\* the required stake
validate_config(conf) ==
  /\ SumOver([a \in DOMAIN conf.distribution |-> conf.distribution[a].amount],
             DOMAIN conf.distribution) + conf.rewards_pool = TotalSupply
  /\ \A a \in DOMAIN conf.council_nodes :
       /\ a \in DOMAIN conf.distribution
       /\ conf.distribution[a].bonded
       /\ conf.distribution[a].amount >= conf.network_params.required_council_node_stake

\* the staking accounts of the genesis distribution
GenesisAccounts(conf, genesis_time) ==
  [a \in DOMAIN conf.distribution |->
     IF conf.distribution[a].bonded
     THEN new_init_bonded(conf.distribution[a].amount, genesis_time, a,
                          MapGet(conf.council_nodes, a))
     ELSE NewAccount(a, 0, conf.distribution[a].amount, genesis_time, None)]

GenesisAppHash(conf, genesis_time) ==
  compute_app_hash(<<>>, GenesisAccounts(conf, genesis_time),
                   [remaining |-> conf.rewards_pool], conf.network_params)

\* LivenessTracker::new: a window of ones
LivenessTracker_new(block_signing_window) == [i \in 1..block_signing_window |-> TRUE]

\* get_voting_power(distribution, node_address)
get_voting_power(distribution, node_address) == distribution[node_address].amount

\* get_validator_key(node)
get_validator_key(node) == node.consensus_pubkey

\* ChainNodeState::genesis
ChainNodeState_genesis(genesis_apphash, genesis_time, last_account_root_hash, rewards_pool, network_params, council_nodes, punishment) ==
  [ last_block_height      |-> 0,
    last_apphash           |-> genesis_apphash,
    block_time             |-> genesis_time,
    last_account_root_hash |-> last_account_root_hash,
    rewards_pool           |-> rewards_pool,
    network_params         |-> network_params,
    council_nodes          |-> council_nodes,
    punishment             |-> punishment ]

GenesisTime == 0

\* no tracker is exercised on its own
TrackerUnused ==
  /\ tracker = None
  /\ tracker_window = 0
  /\ tracker_call = NoCall

\* no Milli computation is exercised on its own
MilliUnused ==
  /\ milli_a = 0
  /\ milli_b = 0
  /\ overflow_checks = FALSE
  /\ milli_call = NoCall

\* the wallets of the client: each owns one transfer address
Wallets == {1, 2}

\* a WalletState::default()
WalletState_default == [balance |-> 0, unspent_transactions |-> EmptyMap, transaction_history |-> <<>>]

\* no wallet is synchronised
WalletUnused ==
  /\ ledger = <<>>
  /\ wallet_states = [w \in Wallets |-> WalletState_default]
  /\ synced = [w \in Wallets |-> 0]
  /\ wallet_call = NoCall

\* the requesting thread makes no request
Idle == [pc |-> "idle", batch |-> <<>>, at |-> 0]

\* WebsocketRpcClient::new returned: the first connection is open, its loop
\* thread runs and the monitor holds its handle
WsUnused ==
  /\ connection_state = "Connected"
  /\ connection_handle = Some(1)
  /\ monitor_pc = "match"
  /\ new_connection_state = "Connected"
  /\ new_connection_handle = None
  /\ loop_threads = << "running" >>
  /\ loop_sender = None
  /\ websocket_writer = 1
  /\ channel_map = {}
  /\ receivers = {}
  /\ channels = {}
  /\ wire = {}
  /\ requester = Idle
  /\ next_id = 0
  /\ ws_call = NoCall

\* the wallet names known to the storage
SyncWallets == {1, 2}

\* AutoSynchronizerCore::new with no wallet, an empty storage and no
\* connection
SyncUnused ==
  /\ core = [state |-> "ReadyProcess", max_height |-> 0, wallets |-> {}, current_wallet |-> 0]
  /\ heights = [n \in SyncWallets |-> 0]
  /\ queue = FALSE
  /\ outstanding = {}
  /\ core_halted = FALSE
  /\ sync_call = NoCall

\* the client's network side is not used
ClientUnused == WsUnused /\ SyncUnused

\* the application is not started
ChainNotStarted ==
  /\ last_state = None
  /\ uncommitted_account_root_hash = EmptyMap
  /\ delivered_txs = <<>>
  /\ genesis_app_hash = GenesisAppHash(GenesisConf, GenesisTime)
  /\ validator_voting_power = EmptyMap
  /\ validator_pubkeys = EmptyMap
  /\ power_changed_in_block = EmptyMap
  /\ new_nodes_in_block = EmptyMap
  /\ rewards_pool_updated = FALSE
  /\ db_last_state = None
  /\ db_tx_meta = EmptyMap
  /\ db_buffered = EmptyMap
  /\ txdb = {}
  /\ phase = "new"
  /\ resp = NoResponse
  /\ halted = FALSE
  /\ faults = 0
  /\ req = [op |-> "none"]
  /\ committed_txs = <<>>

Init ==
  /\ last_state = None
  /\ uncommitted_account_root_hash = EmptyMap
  /\ delivered_txs = <<>>
  /\ genesis_app_hash \in { GenesisAppHash(GenesisConf, GenesisTime),
                            GenesisAppHash(BadGenesisConf, GenesisTime),
                            GenesisAppHash(StakerGenesisConf, GenesisTime) }
  /\ validator_voting_power = EmptyMap
  /\ validator_pubkeys = EmptyMap
  /\ power_changed_in_block = EmptyMap
  /\ new_nodes_in_block = EmptyMap
  /\ rewards_pool_updated = FALSE
  /\ db_last_state = None
  /\ db_tx_meta = EmptyMap
  /\ db_buffered = EmptyMap
  /\ txdb = {}
  /\ phase = "new"
  /\ resp = NoResponse
  /\ halted = FALSE
  /\ faults = 0
  /\ req = [op |-> "none"]
  /\ committed_txs = <<>>
  /\ TrackerUnused
  /\ MilliUnused
  /\ WalletUnused
  /\ ClientUnused

\* a panic: the process aborts; its memory and the unflushed buffered writes
\* are gone, what is persisted stays
Panic ==
  /\ halted' = TRUE
  /\ resp' = NoResponse
  /\ phase' = "halted"
  /\ last_state' = None
  /\ uncommitted_account_root_hash' = EmptyMap
  /\ delivered_txs' = <<>>
  /\ validator_voting_power' = EmptyMap
  /\ validator_pubkeys' = EmptyMap
  /\ power_changed_in_block' = EmptyMap
  /\ new_nodes_in_block' = EmptyMap
  /\ rewards_pool_updated' = FALSE
  /\ db_buffered' = EmptyMap
  /\ UNCHANGED << genesis_app_hash, db_last_state, db_tx_meta >>

\* a faulty comparison: any computed genesis app hash is taken
genesis_app_hash_unchecked(computed) == TRUE

\* the comparison of the computed genesis app hash with the expected one
genesis_app_hash_matches(computed) == genesis_app_hash = computed

\* init_chain_handler
InitChain(conf) ==
  /\ ~halted
  /\ NoResponseInFlight
  /\ phase = "new"
  /\ IF ~validate_config(conf)
     THEN Panic /\ UNCHANGED txdb
     ELSE LET accounts == GenesisAccounts(conf, GenesisTime)
              rp == [remaining |-> conf.rewards_pool]
              nodes == [i \in 1..Cardinality(DOMAIN conf.council_nodes) |->
                          conf.council_nodes[SortedKeys(DOMAIN conf.council_nodes)[i]]]
              new_account_root == accounts
              network_params == conf.network_params
              computed == compute_app_hash(<<>>, new_account_root, rp, network_params)
              validator_liveness ==
                [k \in {get_validator_key(nodes[i]) : i \in DOMAIN nodes} |->
                   LivenessTracker_new(network_params.block_signing_window)]
              genesis_state ==
                ChainNodeState_genesis(computed, GenesisTime, new_account_root, rp,
                                       network_params, nodes,
                                       [validator_liveness |-> validator_liveness,
                                        slashing_schedule |-> EmptyMap])
          IN IF ~genesis_app_hash_matches(computed)
             THEN Panic /\ UNCHANGED txdb
             ELSE /\ validator_voting_power' =
                       [a \in (DOMAIN validator_voting_power)
                                \cup {nodes[i].staking_account_address : i \in DOMAIN nodes} |->
                          IF a \in DOMAIN conf.council_nodes
                          THEN get_voting_power(conf.distribution, a)
                          ELSE validator_voting_power[a]]
                  /\ validator_pubkeys' =
                       [a \in (DOMAIN validator_pubkeys)
                                \cup {nodes[i].staking_account_address : i \in DOMAIN nodes} |->
                          IF a \in DOMAIN conf.council_nodes
                          THEN get_validator_key(conf.council_nodes[a])
                          ELSE validator_pubkeys[a]]
                  /\ db_last_state' = Some(genesis_state)
                  /\ uncommitted_account_root_hash' = genesis_state.last_account_root_hash
                  /\ last_state' = Some(genesis_state)
                  /\ resp' = [op |-> "init_chain",
                              validators |->
                                [i \in DOMAIN nodes |->
                                   [pub_key |-> get_validator_key(nodes[i]),
                                    power |-> get_voting_power(conf.distribution,
                                                 nodes[i].staking_account_address)]]]
                  /\ phase' = "idle"
                  /\ UNCHANGED << delivered_txs, genesis_app_hash, power_changed_in_block,
                                  new_nodes_in_block, rewards_pool_updated,
                                  db_tx_meta, db_buffered, txdb, halted >>

----------------------------------------------------------------------------
\* Info and CheckTx

\* a faulty info: the height of the block in progress is reported
info_block_in_progress ==
  IF IsSome(last_state)
  THEN [ op |-> "info",
         last_block_app_hash |-> Unwrap(last_state).last_apphash,
         last_block_height   |-> Unwrap(last_state).last_block_height
                                   + (IF phase \in {"begun", "ended"} THEN 1 ELSE 0),
         data                |-> Some(Unwrap(last_state)) ]
  ELSE [ op |-> "info",
         last_block_app_hash |-> genesis_app_hash,
         last_block_height   |-> 0,
         data                |-> None ]

\* fn info: the response computed from the in-memory last_state
info ==
  IF IsSome(last_state)
  THEN [ op |-> "info",
         last_block_app_hash |-> Unwrap(last_state).last_apphash,
         last_block_height   |-> Unwrap(last_state).last_block_height,
         data                |-> Some(Unwrap(last_state)) ]
  ELSE [ op |-> "info",
         last_block_app_hash |-> genesis_app_hash,
         last_block_height   |-> 0,
         data                |-> None ]

Info ==
  /\ ~halted
  /\ NoResponseInFlight
  /\ resp' = info
  /\ UNCHANGED << app_vars, db_vars, txdb, phase, halted >>

\* fn check_tx
CheckTx(tx, sgx_ok) ==
  /\ ~halted
  /\ NoResponseInFlight
  /\ LET r == validate_tx_req(tx, sgx_ok)
     IN IF r.panic
        THEN Panic /\ txdb' = r.txdb
        ELSE /\ resp' = [op |-> "check_tx", code |-> r.code, log |-> r.log]
             /\ txdb' = r.txdb
             /\ UNCHANGED << app_vars, db_vars, phase, halted >>

----------------------------------------------------------------------------
\* BeginBlock

\* usize::MAX % n for n > 0: 2^64 is (2^16)^4, reduced modulo n at each step
usize_max_mod(n) ==
  LET a == 65536 % n
      b == (a * a) % n
      c == (b * b) % n
  IN (c + n - 1) % n

\* a faulty update: the index is block_height % block_signing_window
LivenessTracker_update_height_index(liveness, block_height, signed) ==
  [liveness EXCEPT ![(block_height % Len(liveness)) + 1] = signed]

\* LivenessTracker::update (block_signing_window > 0); without overflow
\* checks, block_height as usize - 1 wraps to usize::MAX for block_height 0
LivenessTracker_update(liveness, block_height, signed) ==
  LET block_signing_window == Len(liveness)
      update_index == IF block_height >= 1
                      THEN (block_height - 1) % block_signing_window
                      ELSE usize_max_mod(block_signing_window)
  IN [liveness EXCEPT ![update_index + 1] = signed]

\* a faulty is_live: the validator is live with missed_block_threshold misses
is_live_at_threshold(liveness, missed_block_threshold) ==
  Cardinality({i \in DOMAIN liveness : ~liveness[i]}) <= missed_block_threshold

\* LivenessTracker::is_live
is_live(liveness, missed_block_threshold) ==
  LET zero_count == Cardinality({i \in DOMAIN liveness : ~liveness[i]})
  IN zero_count < missed_block_threshold

\* a faulty update_validator_liveness: a validator without a vote in
\* last_commit_info is recorded as not having signed
update_validator_liveness_absent_unsigned(validator_liveness, block_height, votes) ==
  [k \in DOMAIN validator_liveness |-> LivenessTracker_update(validator_liveness[k], block_height, k \in DOMAIN votes /\ votes[k])]

\* update_validator_liveness: votes maps a validator address to signed_last_block
update_validator_liveness(validator_liveness, block_height, votes) ==
  [k \in DOMAIN validator_liveness |->
     IF k \in DOMAIN votes
     THEN LivenessTracker_update(validator_liveness[k], block_height, votes[k])
     ELSE validator_liveness[k]]

\* validators.tendermint_validator_addresses: tendermint address -> staking address
tendermint_validator_addresses(state) ==
  [k \in {state.council_nodes[i].consensus_pubkey : i \in DOMAIN state.council_nodes} |->
     state.council_nodes[
       CHOOSE i \in DOMAIN state.council_nodes :
         /\ state.council_nodes[i].consensus_pubkey = k
         /\ \A j \in DOMAIN state.council_nodes :
              state.council_nodes[j].consensus_pubkey = k => j <= i
     ].staking_account_address]

\* accounts_to_punish: byzantine evidence first, then every tracker that is
\* not live, in key order
AccountsToPunish(state, evidence) ==
  LET tm == tendermint_validator_addresses(state)
      liveness == state.punishment.validator_liveness
      byz == [i \in DOMAIN evidence |->
                [account_address |-> tm[evidence[i]],
                 slash_ratio |-> state.network_params.byzantine_slash_percent,
                 punishment_kind |-> "ByzantineFault"]]
      keys == SortedKeys({k \in DOMAIN liveness :
                            ~is_live(liveness[k], state.network_params.missed_block_threshold)})
      nonlive == [i \in DOMAIN keys |->
                    [account_address |-> tm[keys[i]],
                     slash_ratio |-> state.network_params.liveness_slash_percent,
                     punishment_kind |-> "NonLive"]]
  IN byz \o nonlive

\* get_slashing_proportion: 1 / sqrt(offender power / total power) clamped to
\* at most 1 (in thousandths); the offenders are a part of the validator set,
\* so the quotient under the root is at most 1 and the clamp always applies
get_slashing_proportion(offenders) == 1000

\* SlashRatio * Milli
SlashRatioMul(ratio, milli) == (ratio * milli) \div 1000

\* SlashingSchedule::new
SlashingSchedule_new(slash_ratio, slashing_time, punishment_kind) ==
  [slash_ratio |-> slash_ratio, slashing_time |-> slashing_time,
   punishment_kind |-> punishment_kind]

\* SlashingSchedule::update_slash_ratio: the larger ratio, the dominant kind
update_slash_ratio(schedule, slash_ratio, punishment_kind) ==
  [schedule EXCEPT
     !.slash_ratio = Max(@, slash_ratio),
     !.punishment_kind = IF @ = "ByzantineFault" \/ punishment_kind = "ByzantineFault"
                         THEN "ByzantineFault" ELSE "NonLive"]

RECURSIVE MergeSlashingSchedule_replacing(_, _, _, _)
\* a faulty merge: a new fault replaces the pending slash of the account
MergeSlashingSchedule_replacing(slashing_schedule, to_punish, slashing_time, slashing_proportion) ==
  IF to_punish = <<>> THEN slashing_schedule
  ELSE LET p == Head(to_punish)
           ratio == SlashRatioMul(p.slash_ratio, slashing_proportion)
           next == MapPut(slashing_schedule, p.account_address,
                          SlashingSchedule_new(ratio, slashing_time, p.punishment_kind))
       IN MergeSlashingSchedule_replacing(next, Tail(to_punish), slashing_time,
                                          slashing_proportion)

RECURSIVE MergeSlashingSchedule(_, _, _, _)
\* the loop over accounts_to_punish that updates or creates the schedules
MergeSlashingSchedule(slashing_schedule, to_punish, slashing_time, slashing_proportion) ==
  IF to_punish = <<>> THEN slashing_schedule
  ELSE LET p == Head(to_punish)
           ratio == SlashRatioMul(p.slash_ratio, slashing_proportion)
           next ==
             IF p.account_address \in DOMAIN slashing_schedule
             THEN MapPut(slashing_schedule, p.account_address,
                         update_slash_ratio(slashing_schedule[p.account_address],
                                            ratio, p.punishment_kind))
             ELSE MapPut(slashing_schedule, p.account_address,
                         SlashingSchedule_new(ratio, slashing_time, p.punishment_kind))
       IN MergeSlashingSchedule(next, Tail(to_punish), slashing_time, slashing_proportion)

\* jail_account: jail the account until block_time + jail_duration and
\* record a voting power of zero for the block
jail_account(st, account_address, punishment_kind, block_time, jail_duration) ==
  LET account == Unwrap(get_account(account_address, st.root))
      jailed == jail_until(account, block_time + jail_duration, punishment_kind)
  IN [ root |-> update_account(jailed, st.root).root,
       power_changed |-> MapPut(st.power_changed, account_address, 0) ]

RECURSIVE JailAccounts_byzantine_only(_, _, _, _)
\* a faulty loop: only the accounts named by byzantine evidence are jailed
JailAccounts_byzantine_only(st, to_punish, block_time, jail_duration) ==
  IF to_punish = <<>> THEN st
  ELSE JailAccounts_byzantine_only(
         IF Head(to_punish).punishment_kind = "ByzantineFault"
         THEN jail_account(st, Head(to_punish).account_address,
                           Head(to_punish).punishment_kind, block_time, jail_duration)
         ELSE st,
         Tail(to_punish), block_time, jail_duration)

RECURSIVE JailAccounts(_, _, _, _)
\* the loop over accounts_to_punish that jails each account
JailAccounts(st, to_punish, block_time, jail_duration) ==
  IF to_punish = <<>> THEN st
  ELSE JailAccounts(jail_account(st, Head(to_punish).account_address,
                                 Head(to_punish).punishment_kind, block_time, jail_duration),
                    Tail(to_punish), block_time, jail_duration)

\* slash one account whose schedule is due
slash_account(st, voting_power, account_address, block_time, jail_duration) ==
  LET schedule == st.slashing_schedule[account_address]
      account == Unwrap(get_account(account_address, st.root))
      amount == SlashAmount(account, schedule.slash_ratio)
      slashed == [account EXCEPT
                    !.bonded = @ - amount,
                    !.jailed_until = Some(block_time + jail_duration),
                    !.punishment = Some([kind |-> schedule.punishment_kind,
                                         jailed_until |-> block_time + jail_duration,
                                         slash_amount |-> Some(amount)])]
  IN [ root |-> update_account(slashed, st.root).root,
       remaining |-> st.remaining + amount,
       power_changed |->
         IF account_address \in (DOMAIN voting_power) \cup (DOMAIN st.power_changed)
         THEN MapPut(st.power_changed, account_address, 0)
         ELSE st.power_changed,
       slashing_schedule |-> MapRemove(st.slashing_schedule, account_address),
       attributes |-> Append(st.attributes,
                             [account |-> account_address, amount |-> amount]) ]

RECURSIVE SlashAccounts(_, _, _, _, _)
SlashAccounts(st, voting_power, due, block_time, jail_duration) ==
  IF due = <<>> THEN st
  ELSE SlashAccounts(slash_account(st, voting_power, Head(due), block_time, jail_duration),
                     voting_power, Tail(due), block_time, jail_duration)

\* a faulty slash_eligible_accounts: every schedule is executed at once
slash_eligible_accounts_at_once(root, remaining, power_changed, voting_power, slashing_schedule, block_time, jail_duration) ==
  SlashAccounts([root |-> root, remaining |-> remaining, power_changed |-> power_changed,
                 slashing_schedule |-> slashing_schedule, attributes |-> <<>>],
                voting_power, SortedKeys(DOMAIN slashing_schedule), block_time, jail_duration)

\* slash_eligible_accounts: execute every schedule with slashing_time <= block_time
slash_eligible_accounts(root, remaining, power_changed, voting_power, slashing_schedule, block_time, jail_duration) ==
  LET due == SortedKeys({a \in DOMAIN slashing_schedule :
                           slashing_schedule[a].slashing_time <= block_time})
  IN SlashAccounts([root |-> root, remaining |-> remaining, power_changed |-> power_changed,
                    slashing_schedule |-> slashing_schedule, attributes |-> <<>>],
                   voting_power, due, block_time, jail_duration)

\* sequences over S of length at most n
SeqUpTo(S, n) == UNION {[1..k -> S] : k \in 0..n}

\* fn begin_block; the request carries the header (height, time), the votes
\* of last_commit_info and the byzantine evidence
BeginBlock(block_time, votes, evidence) ==
  /\ ~halted
  /\ NoResponseInFlight
  /\ phase = "idle"
  /\ LET state0 == Unwrap(last_state)
         block_height == state0.last_block_height + 1
         params == state0.network_params
         liveness1 ==
           IF block_height > 1
           THEN update_validator_liveness(state0.punishment.validator_liveness,
                                          block_height - 1, votes)
           ELSE state0.punishment.validator_liveness
         state1 == [state0 EXCEPT !.block_time = block_time,
                                  !.punishment.validator_liveness = liveness1]
         accounts_to_punish == AccountsToPunish(state1, evidence)
         slashing_time == state1.block_time + params.slash_wait_period
         slashing_proportion ==
           get_slashing_proportion({accounts_to_punish[i].account_address :
                                      i \in DOMAIN accounts_to_punish})
         schedule2 == MergeSlashingSchedule(state1.punishment.slashing_schedule,
                                            accounts_to_punish, slashing_time,
                                            slashing_proportion)
         jailing_attributes ==
           [i \in DOMAIN accounts_to_punish |-> accounts_to_punish[i].account_address]
         jailed == JailAccounts([root |-> uncommitted_account_root_hash,
                                 power_changed |-> power_changed_in_block],
                                accounts_to_punish, block_time, params.jail_duration)
         slashed == slash_eligible_accounts(jailed.root, state1.rewards_pool.remaining,
                                            jailed.power_changed, validator_voting_power,
                                            schedule2, block_time, params.jail_duration)
         state2 == [state1 EXCEPT !.punishment.slashing_schedule = slashed.slashing_schedule,
                                  !.rewards_pool.remaining = slashed.remaining]
     IN /\ block_height <= MaxHeight
        /\ last_state' = Some(state2)
        /\ uncommitted_account_root_hash' = slashed.root
        /\ power_changed_in_block' = slashed.power_changed
        /\ rewards_pool_updated' = (rewards_pool_updated \/ slashed.attributes # <<>>)
        /\ resp' = [op |-> "begin_block",
                    events |->
                      (IF jailing_attributes # <<>>
                       THEN << [type |-> "jail_validators", attributes |-> jailing_attributes] >>
                       ELSE <<>>)
                      \o
                      (IF slashed.attributes # <<>>
                       THEN << [type |-> "slash_validators", attributes |-> slashed.attributes] >>
                       ELSE <<>>)]
        /\ phase' = "begun"
        /\ UNCHANGED << delivered_txs, genesis_app_hash, validator_voting_power,
                        validator_pubkeys, new_nodes_in_block, db_vars, txdb, halted >>

----------------------------------------------------------------------------
\* DeliverTx

\* a faulty spend_utxos: the bitsets are written back as they were loaded
spend_utxos_bits_not_set(txins) ==
  [id \in {p.id : p \in txins} |-> Unwrap(db_get(id))]

\* a faulty spend_utxos: the bitset is loaded from the store again for every
\* input, so that of several inputs with one tx id only the last one is marked
spend_utxos_reloading(txins) ==
  [id \in {p.id : p \in txins} |->
     LET last == CHOOSE p \in txins : p.id = id /\ \A q \in txins : q.id = id => q.index <= p.index
     IN [i \in DOMAIN Unwrap(db_get(id)) |-> IF last.index + 1 = i THEN TRUE ELSE Unwrap(db_get(id))[i]]]

\* spend_utxos: the bitsets written to the DB transaction, one per tx id of
\* the inputs, each loaded once from the store and with every named bit set
spend_utxos(txins) ==
  [id \in {p.id : p \in txins} |->
     [i \in DOMAIN Unwrap(db_get(id)) |->
        IF \E p \in txins : p.id = id /\ p.index + 1 = i
        THEN TRUE
        ELSE Unwrap(db_get(id))[i]]]

\* db.write_buffered(inittx): later buffered writes shadow earlier ones
write_buffered(inittx) ==
  [id \in (DOMAIN db_buffered) \cup (DOMAIN inittx) |->
     IF id \in DOMAIN inittx THEN inittx[id] ELSE db_buffered[id]]

\* a faulty bookkeeping: the recorded change depends on the new bonded amount
\* only, whatever the recorded voting power
PowerChange_by_new_power(maccount, voting_power, power_changed, min_power) ==
  IF /\ IsSome(maccount)
     /\ \/ Unwrap(maccount).address \in DOMAIN voting_power
        \/ Unwrap(maccount).address \in DOMAIN power_changed
  THEN MapPut(power_changed, Unwrap(maccount).address,
              IF Unwrap(maccount).bonded >= min_power THEN Unwrap(maccount).bonded ELSE 0)
  ELSE power_changed

\* the voting-power bookkeeping of deliver_tx for the updated account
PowerChange(maccount, voting_power, power_changed, min_power) ==
  IF /\ IsSome(maccount)
     /\ \/ Unwrap(maccount).address \in DOMAIN voting_power
        \/ Unwrap(maccount).address \in DOMAIN power_changed
  THEN LET account == Unwrap(maccount)
           new_power == account.bonded
           old_power == IF account.address \in DOMAIN voting_power
                        THEN voting_power[account.address] ELSE 0
       IN IF new_power > old_power /\ new_power >= min_power
          THEN MapPut(power_changed, account.address, new_power)
          ELSE IF old_power >= min_power /\ new_power < old_power
          THEN MapPut(power_changed, account.address, 0)
          ELSE power_changed
  ELSE power_changed

\* the account a successful validation hands to deliver_tx is jailed and a
\* validator: the unreachable! branch
HitsUnreachable(maccount, voting_power, power_changed) ==
  /\ IsSome(maccount)
  /\ \/ Unwrap(maccount).address \in DOMAIN voting_power
     \/ Unwrap(maccount).address \in DOMAIN power_changed
  /\ is_jailed(Unwrap(maccount))

\* the "valid_txs" event
ValidTxEvent(fee, maccount, tx) ==
  [ type |-> "valid_txs",
    attributes |->
      << [key |-> "fee", value |-> fee] >>
      \o (IF IsSome(maccount)
          THEN << [key |-> "account", value |-> Unwrap(maccount).address] >>
          ELSE <<>>)
      \o << [key |-> "txid", value |-> tx_id(tx)] >> ]

\* a faulty new_remaining: the fee is dropped
new_remaining_fee_dropped(rewards_pool, fee) == rewards_pool.remaining

\* rewards_pool.remaining + fee, the new remaining of the rewards pool
new_remaining(rewards_pool, fee) == rewards_pool.remaining + fee

\* fn deliver_tx
DeliverTx(tx, sgx_ok) ==
  /\ ~halted
  /\ NoResponseInFlight
  /\ phase = "begun"
  /\ LET r == validate_tx_req(tx, sgx_ok)
     IN IF r.panic
        THEN Panic /\ txdb' = r.txdb
        ELSE IF r.code = 0 /\ r.ok
        THEN LET state == Unwrap(last_state)
                 inittx ==
                   CASE tx.kind = "TransferTx" -> spend_utxos(tx.inputs)
                     [] tx.kind = "DepositStakeTx" -> spend_utxos(tx.inputs)
                     [] OTHER -> EmptyMap
                 updated ==
                   IF tx.kind = "TransferTx"
                   THEN [root |-> uncommitted_account_root_hash, maccount |-> None]
                   ELSE update_account(Unwrap(r.account), uncommitted_account_root_hash)
                 power_changed1 ==
                   IF tx.kind = "NodeJoinTx"
                   THEN MapPut(power_changed_in_block, Unwrap(r.account).address,
                               Unwrap(r.account).bonded)
                   ELSE power_changed_in_block
                 remaining1 == new_remaining(state.rewards_pool, r.fee)
             IN IF \/ HitsUnreachable(updated.maccount, validator_voting_power, power_changed1)
                   \/ remaining1 > MAX_COIN
                THEN Panic /\ txdb' = r.txdb
                ELSE /\ new_nodes_in_block' =
                          IF tx.kind = "NodeJoinTx"
                          THEN MapPut(new_nodes_in_block, Unwrap(r.account).address,
                                      Unwrap(Unwrap(r.account).council_node))
                          ELSE new_nodes_in_block
                     /\ power_changed_in_block' =
                          PowerChange(updated.maccount, validator_voting_power, power_changed1,
                                      state.network_params.required_council_node_stake)
                     /\ uncommitted_account_root_hash' = updated.root
                     /\ delivered_txs' = Append(delivered_txs, tx)
                     /\ last_state' =
                          Some([state EXCEPT !.rewards_pool.remaining = remaining1])
                     /\ rewards_pool_updated' = TRUE
                     /\ db_buffered' = write_buffered(inittx)
                     /\ txdb' = r.txdb
                     /\ resp' = [op |-> "deliver_tx", code |-> r.code, log |-> r.log,
                                 fee |-> r.fee,
                                 events |-> << ValidTxEvent(r.fee, updated.maccount, tx) >>]
                     /\ UNCHANGED << genesis_app_hash, validator_voting_power,
                                     validator_pubkeys, db_last_state, db_tx_meta,
                                     phase, halted >>
        ELSE /\ resp' = [op |-> "deliver_tx", code |-> r.code, log |-> r.log,
                         fee |-> 0, events |-> <<>>]
             /\ txdb' = r.txdb
             /\ UNCHANGED << app_vars, db_vars, phase, halted >>

----------------------------------------------------------------------------
\* EndBlock and Commit

\* a faulty end_block_handler: the power changes of the block stay in the
\* buffer after they were emitted
EndBlock_keeping_power_changes ==
  /\ ~halted
  /\ NoResponseInFlight
  /\ phase = "begun"
  /\ LET state == Unwrap(last_state)
         pubkeys == [a \in (DOMAIN validator_pubkeys) \cup (DOMAIN new_nodes_in_block) |->
                       IF a \in DOMAIN new_nodes_in_block
                       THEN get_validator_key(new_nodes_in_block[a])
                       ELSE validator_pubkeys[a]]
         changed == SortedKeys(DOMAIN power_changed_in_block)
         joined == SortedKeys(DOMAIN new_nodes_in_block)
     IN /\ resp' = [op |-> "end_block",
                    validator_updates |->
                      [i \in DOMAIN changed |->
                         [address |-> changed[i],
                          pub_key |-> pubkeys[changed[i]],
                          power |-> power_changed_in_block[changed[i]]]],
                    events |-> IF delivered_txs # <<>>
                               THEN << [type |-> "block_filter"] >> ELSE <<>>]
        /\ validator_voting_power' =
             [a \in (DOMAIN validator_voting_power) \cup (DOMAIN power_changed_in_block) |->
                IF a \in DOMAIN power_changed_in_block
                THEN power_changed_in_block[a] ELSE validator_voting_power[a]]
        /\ validator_pubkeys' = pubkeys
        /\ last_state' =
             Some([state EXCEPT !.council_nodes =
                     @ \o [i \in DOMAIN joined |-> new_nodes_in_block[joined[i]]]])
        /\ new_nodes_in_block' = EmptyMap
        /\ phase' = "ended"
        /\ UNCHANGED << uncommitted_account_root_hash, delivered_txs, genesis_app_hash,
                        rewards_pool_updated, db_vars, txdb, halted, power_changed_in_block >>

\* end_block_handler: one ValidatorUpdate per entry of power_changed_in_block,
\* new nodes merged into council_nodes, block-scoped buffers reset
EndBlock ==
  /\ ~halted
  /\ NoResponseInFlight
  /\ phase = "begun"
  /\ LET state == Unwrap(last_state)
         pubkeys == [a \in (DOMAIN validator_pubkeys) \cup (DOMAIN new_nodes_in_block) |->
                       IF a \in DOMAIN new_nodes_in_block
                       THEN get_validator_key(new_nodes_in_block[a])
                       ELSE validator_pubkeys[a]]
         changed == SortedKeys(DOMAIN power_changed_in_block)
         joined == SortedKeys(DOMAIN new_nodes_in_block)
     IN /\ resp' = [op |-> "end_block",
                    validator_updates |->
                      [i \in DOMAIN changed |->
                         [address |-> changed[i],
                          pub_key |-> pubkeys[changed[i]],
                          power |-> power_changed_in_block[changed[i]]]],
                    events |-> IF delivered_txs # <<>>
                               THEN << [type |-> "block_filter"] >> ELSE <<>>]
        /\ validator_voting_power' =
             [a \in (DOMAIN validator_voting_power) \cup (DOMAIN power_changed_in_block) |->
                IF a \in DOMAIN power_changed_in_block
                THEN power_changed_in_block[a] ELSE validator_voting_power[a]]
        /\ validator_pubkeys' = pubkeys
        /\ last_state' =
             Some([state EXCEPT !.council_nodes =
                     @ \o [i \in DOMAIN joined |-> new_nodes_in_block[joined[i]]]])
        /\ power_changed_in_block' = EmptyMap
        /\ new_nodes_in_block' = EmptyMap
        /\ phase' = "ended"
        /\ UNCHANGED << uncommitted_account_root_hash, delivered_txs, genesis_app_hash,
                        rewards_pool_updated, db_vars, txdb, halted >>

\* the spend bitsets created for the outputs of the delivered transactions
NewTxMeta(txs) ==
  [id \in {tx_id(txs[i]) : i \in {j \in DOMAIN txs : HasOutputs(txs[j])}} |->
     FreshBitVec(Len(id.outputs))]

\* commit_handler: compute the app hash and persist, in one batch, the
\* spend-map updates and the new ChainNodeState
Commit ==
  /\ ~halted
  /\ NoResponseInFlight
  /\ phase = "ended"
  /\ LET state == Unwrap(last_state)
         tx_tree == [i \in DOMAIN delivered_txs |-> tx_id(delivered_txs[i])]
         app_hash == compute_app_hash(tx_tree, uncommitted_account_root_hash,
                                      state.rewards_pool, state.network_params)
         new_state == [state EXCEPT !.last_block_height = @ + 1,
                                    !.last_apphash = app_hash,
                                    !.last_account_root_hash = uncommitted_account_root_hash]
         created == NewTxMeta(delivered_txs)
     IN /\ last_state' = Some(new_state)
        /\ db_last_state' = Some(new_state)
        /\ db_tx_meta' =
             [id \in (DOMAIN db_tx_meta) \cup (DOMAIN db_buffered) \cup (DOMAIN created) |->
                IF id \in DOMAIN created THEN created[id]
                ELSE IF id \in DOMAIN db_buffered THEN db_buffered[id]
                ELSE db_tx_meta[id]]
        /\ db_buffered' = EmptyMap
        /\ delivered_txs' = <<>>
        /\ rewards_pool_updated' = FALSE
        /\ resp' = [op |-> "commit", data |-> app_hash]
        /\ phase' = "idle"
        /\ UNCHANGED << uncommitted_account_root_hash, genesis_app_hash,
                        validator_voting_power, validator_pubkeys, power_changed_in_block,
                        new_nodes_in_block, txdb, halted >>

----------------------------------------------------------------------------
\* Restart: new_with_storage on the persisted storage

\* a faulty get_validator_mapping: the jailed accounts keep their bonded
\* amount as voting power
get_validator_mapping_jailed_kept(last_app_state) ==
  LET nodes == last_app_state.council_nodes
      addrs == {nodes[i].staking_account_address : i \in DOMAIN nodes}
      account(a) == Unwrap(get_account(a, last_app_state.last_account_root_hash))
  IN [ validator_voting_power |->
         [a \in addrs |->
            IF account(a).bonded < last_app_state.network_params.required_council_node_stake
            THEN 0
            ELSE account(a).bonded],
       validator_pubkeys |->
         [a \in addrs |->
            get_validator_key(nodes[CHOOSE i \in DOMAIN nodes :
                                      nodes[i].staking_account_address = a])] ]

\* get_validator_mapping(accounts, last_app_state)
get_validator_mapping(last_app_state) ==
  LET nodes == last_app_state.council_nodes
      addrs == {nodes[i].staking_account_address : i \in DOMAIN nodes}
      last_node(a) == nodes[CHOOSE i \in DOMAIN nodes :
                              /\ nodes[i].staking_account_address = a
                              /\ \A j \in DOMAIN nodes :
                                   nodes[j].staking_account_address = a => j <= i]
      account(a) == Unwrap(get_account(a, last_app_state.last_account_root_hash))
  IN [ validator_voting_power |->
         [a \in addrs |->
            IF \/ is_jailed(account(a))
               \/ account(a).bonded < last_app_state.network_params.required_council_node_stake
            THEN 0
            ELSE account(a).bonded],
       validator_pubkeys |-> [a \in addrs |-> get_validator_key(last_node(a))] ]

\* a faulty CheckChain: the persisted app hash is not sent
CheckChain_without_hash(snapshot) == [op |-> "CheckChain", last_app_hash |-> None]

\* EnclaveRequest::CheckChain built from the persisted snapshot, if any
CheckChain(snapshot) ==
  [ op |-> "CheckChain",
    last_app_hash |-> IF IsSome(snapshot) THEN Some(Unwrap(snapshot).last_apphash) ELSE None ]

\* the process is up: what startup reports before the first request is served
Started == [op |-> "startup"]

\* new_with_storage / restore_from_storage; enclave_ok is the answer of the
\* enclave to CheckChain
Restart(enclave_ok) ==
  /\ IF ~enclave_ok
     THEN Panic /\ UNCHANGED txdb
     ELSE IF IsSome(db_last_state)
     THEN LET last_app_state == Unwrap(db_last_state)
              mapping == get_validator_mapping(last_app_state)
          IN /\ last_state' = Some(last_app_state)
             /\ uncommitted_account_root_hash' = last_app_state.last_account_root_hash
             /\ delivered_txs' = <<>>
             /\ validator_voting_power' = mapping.validator_voting_power
             /\ validator_pubkeys' = mapping.validator_pubkeys
             /\ power_changed_in_block' = EmptyMap
             /\ new_nodes_in_block' = EmptyMap
             /\ rewards_pool_updated' = FALSE
             /\ db_buffered' = EmptyMap
             /\ phase' = "idle"
             /\ resp' = Started
             /\ halted' = FALSE
             /\ UNCHANGED << genesis_app_hash, db_last_state, db_tx_meta, txdb >>
     ELSE /\ last_state' = None
          /\ uncommitted_account_root_hash' = EmptyMap
          /\ delivered_txs' = <<>>
          /\ validator_voting_power' = EmptyMap
          /\ validator_pubkeys' = EmptyMap
          /\ power_changed_in_block' = EmptyMap
          /\ new_nodes_in_block' = EmptyMap
          /\ rewards_pool_updated' = FALSE
          /\ db_buffered' = EmptyMap
          /\ phase' = "new"
          /\ resp' = Started
          /\ halted' = FALSE
          /\ UNCHANGED << genesis_app_hash, db_last_state, db_tx_meta, txdb >>

----------------------------------------------------------------------------
\* The requests the consensus engine and the mempool can send

OutputChoices == { <<1>>, <<1, 1>> }

\* a pointer to an output of a transaction that was never committed
BogusPointer == TxoPointer(tx_id(TransferTx({}, <<1>>, TRUE)), 0)

KnownPointers ==
  { TxoPointer(id, i) : id \in (DOMAIN db_tx_meta) \cup (DOMAIN db_buffered), i \in 0..1 }

InputChoices ==
  { S \in SUBSET KnownPointers :
      /\ S # {}
      /\ Cardinality(S) <= 2
      /\ \A p \in S : p.index < Len(p.id.outputs) }
  \cup { {BogusPointer} }

\* a staking address without an account in the genesis distribution
FreshAddr == Cardinality(Addrs) + 1

CurrentNonce(a) ==
  IF a \in DOMAIN uncommitted_account_root_hash
  THEN uncommitted_account_root_hash[a].nonce ELSE 0

\* well-formed transactions with a valid witness
SignedTxs ==
  { TransferTx(ins, outs, TRUE) : ins \in InputChoices, outs \in OutputChoices }
  \cup { DepositStakeTx(ins, a, TRUE) : ins \in InputChoices, a \in Addrs \cup {FreshAddr} }
  \cup { WithdrawUnbondedStakeTx(a, CurrentNonce(a), outs, TRUE) :
           a \in Addrs, outs \in OutputChoices }
  \cup { UnbondStakeTx(a, CurrentNonce(a), 1, TRUE) : a \in Addrs }
  \cup { UnjailTx(a, CurrentNonce(a), TRUE) : a \in Addrs }
  \cup { NodeJoinTx(a, CurrentNonce(a), k, TRUE) : a \in Addrs, k \in PubKeys }

\* transfers and unbond requests with a witness that does not verify
ForgedTxs ==
  { TransferTx(ins, <<1>>, FALSE) : ins \in InputChoices }
  \cup { UnbondStakeTx(a, CurrentNonce(a), 1, FALSE) : a \in Addrs }

TxCandidates == {GarbageTx} \cup SignedTxs \cup ForgedTxs

\* the enclave call itself can fail (sgx status) for the requests that go to
\* the enclave; one such request suffices, a failed call does not look at it
SgxChoices(tx) ==
  IF tx.kind = "WithdrawUnbondedStakeTx" /\ tx.witness_ok
  THEN BOOLEAN ELSE {TRUE}

VoteChoices == UNION { [S -> BOOLEAN] : S \in SUBSET PubKeys }

EvidenceChoices ==
  IF IsSome(last_state)
  THEN SeqUpTo(DOMAIN tendermint_validator_addresses(Unwrap(last_state)), MaxEvidence)
  ELSE {<<>>}

\* consensus time moves forward by one second with every block
BlockTimeSteps == {1}

BlockTimeChoices ==
  IF IsSome(last_state)
  THEN {Unwrap(last_state).block_time + d : d \in BlockTimeSteps}
  ELSE {}

\* a block in which some validator misbehaved
Faulty(votes, evidence) ==
  evidence # <<>> \/ \E k \in DOMAIN votes : ~votes[k]

\* the accepted transactions of the chain, in order: the committed blocks and
\* the block in progress
History == committed_txs \o delivered_txs

\* what the environment did to the chain so far: the transactions accepted,
\* the sealed transactions that are in the enclave store only, the faulty
\* blocks
Events ==
  Cardinality({tx_id(History[i]) : i \in DOMAIN History})
  + Cardinality(txdb \ {tx_id(History[i]) : i \in DOMAIN History})
  + faults

NoRequest == [op |-> "none"]

OnInitChain ==
  \E conf \in {GenesisConf, BadGenesisConf, StakerGenesisConf} :
    /\ InitChain(conf)
    /\ req' = [op |-> "init_chain", conf |-> conf]
    /\ UNCHANGED << committed_txs, faults, pure_vars >>

OnInfo ==
  /\ Info
  /\ req' = [op |-> "info"]
  /\ UNCHANGED << committed_txs, faults, pure_vars >>

OnCheckTx ==
  \E tx \in TxCandidates : \E sgx_ok \in SgxChoices(tx) :
    /\ CheckTx(tx, sgx_ok)
    /\ req' = [op |-> "check_tx", tx |-> tx, sgx_ok |-> sgx_ok]
    /\ UNCHANGED << committed_txs, faults, pure_vars >>
    /\ Events' <= MaxEvents

OnBeginBlock ==
  \E block_time \in BlockTimeChoices, votes \in VoteChoices, evidence \in EvidenceChoices :
    /\ BeginBlock(block_time, votes, evidence)
    /\ req' = [op |-> "begin_block", time |-> block_time, votes |-> votes,
               evidence |-> evidence]
    /\ faults' = IF Faulty(votes, evidence) THEN faults + 1 ELSE faults
    /\ UNCHANGED << committed_txs, pure_vars >>
    /\ Events' <= MaxEvents

OnDeliverTx ==
  \E tx \in TxCandidates : \E sgx_ok \in SgxChoices(tx) :
    /\ DeliverTx(tx, sgx_ok)
    /\ req' = [op |-> "deliver_tx", tx |-> tx, sgx_ok |-> sgx_ok]
    /\ UNCHANGED << committed_txs, faults, pure_vars >>
    /\ Events' <= MaxEvents

OnEndBlock ==
  /\ EndBlock
  /\ req' = [op |-> "end_block"]
  /\ UNCHANGED << committed_txs, faults, pure_vars >>

OnCommit ==
  /\ Commit
  /\ req' = [op |-> "commit"]
  /\ committed_txs' = committed_txs \o delivered_txs
  /\ UNCHANGED << faults, pure_vars >>

\* the process is started (again) on the persisted storage, after it aborted
\* or between two requests
OnRestart ==
  \E enclave_ok \in BOOLEAN :
    /\ halted \/ NoResponseInFlight
    /\ Restart(enclave_ok)
    /\ req' = [op |-> "startup", check_chain |-> CheckChain(db_last_state),
               enclave_ok |-> enclave_ok]
    /\ UNCHANGED << committed_txs, faults, pure_vars >>

\* the client (consensus engine, mempool or query connection) reads the
\* response
TakeResponse ==
  /\ ~NoResponseInFlight
  /\ resp' = NoResponse
  /\ req' = NoRequest
  /\ UNCHANGED << app_vars, db_vars, txdb, phase, halted, committed_txs, faults,
                  pure_vars >>

Next ==
  \/ OnInitChain
  \/ OnInfo
  \/ OnCheckTx
  \/ OnBeginBlock
  \/ OnDeliverTx
  \/ OnEndBlock
  \/ OnCommit
  \/ OnRestart
  \/ TakeResponse

Spec == Init /\ [][Next]_vars

----------------------------------------------------------------------------
\* LivenessTracker on its own: a tracker is constructed with any window and
\* receives any sequence of update and is_live calls

MaxWindow == 9
MaxTrackerHeight == 9
MaxThreshold == 4

\* the value of a byte written most significant bit first
ByteOfBits(bits) ==
  SumOver([j \in 1..8 |-> IF bits[j] THEN 2 ^ (8 - j) ELSE 0], 1..8)

\* the bits of a byte, most significant first
BitsOfByte(byte) == [j \in 1..8 |-> (byte \div (2 ^ (8 - j))) % 2 = 1]

\* BitVec::to_bytes: eight bits per byte, the first bit the high-order bit
\* of the first byte, the last byte padded with zeros
to_bytes(bits) ==
  [b \in 1..((Len(bits) + 7) \div 8) |->
     ByteOfBits([j \in 1..8 |-> LET i == (b - 1) * 8 + j
                                IN IF i <= Len(bits) THEN bits[i] ELSE FALSE])]

\* BitVec::from_bytes
from_bytes(bytes) ==
  [i \in 1..(8 * Len(bytes)) |-> BitsOfByte(bytes[((i - 1) \div 8) + 1])[((i - 1) % 8) + 1]]

\* BitVec::truncate: a vector that is not longer than len is left alone
truncate(bits, len) == IF len < Len(bits) THEN SubSeq(bits, 1, len) ELSE bits

\* u16::encode: two bytes, little endian
u16_encode(n) == << n % 256, (n \div 256) % 256 >>

\* Vec<u8>::encode: the compact length (single-byte mode, below 64 items)
\* and the bytes
vec_u8_encode(bytes) == << 4 * Len(bytes) >> \o bytes

\* Encode for LivenessTracker: the length as u16 and to_bytes
LivenessTracker_encode(liveness) ==
  u16_encode(Len(liveness) % 65536) \o vec_u8_encode(to_bytes(liveness))

\* a faulty decode: the padding bits of the last byte are kept
LivenessTracker_decode_padded(input) ==
  IF Len(input) < 3 \/ input[3] % 4 # 0 \/ Len(input) < 3 + input[3] \div 4
  THEN None
  ELSE Some(from_bytes(SubSeq(input, 4, 3 + input[3] \div 4)))

\* Decode for LivenessTracker: None for an input that is too short; the
\* compact length is read in single-byte mode
LivenessTracker_decode(input) ==
  IF Len(input) < 3 \/ input[3] % 4 # 0 \/ Len(input) < 3 + input[3] \div 4
  THEN None
  ELSE LET length == input[1] + 256 * input[2]
           bytes == SubSeq(input, 4, 3 + input[3] \div 4)
       IN Some(truncate(from_bytes(bytes), length))

\* the variables of the application and its environment
chain_vars ==
  << app_vars, db_vars, txdb, faults, req, committed_txs, phase, resp, halted >>

\* what a call on the tracker leaves alone
tracker_frame == << chain_vars, milli_vars, wallet_vars, client_vars >>

TrackerInit ==
  /\ ChainNotStarted
  /\ MilliUnused
  /\ WalletUnused
  /\ ClientUnused
  /\ tracker_window \in 0..MaxWindow
  /\ tracker = Some(LivenessTracker_new(tracker_window))
  /\ tracker_call = [op |-> "new"]

\* the last call did not abort the process
TrackerAlive ==
  /\ IsSome(tracker)
  /\ tracker_call.op = "update" => ~tracker_call.panicked

\* tracker.update(block_height, signed) returns
TrackerUpdate ==
  \E block_height \in 0..MaxTrackerHeight, signed \in BOOLEAN :
    /\ TrackerAlive
    /\ Len(Unwrap(tracker)) > 0
    /\ tracker' = Some(LivenessTracker_update(Unwrap(tracker), block_height, signed))
    /\ tracker_call' = [op |-> "update", block_height |-> block_height,
                        signed |-> signed, panicked |-> FALSE]
    /\ UNCHANGED << tracker_frame, tracker_window >>

\* tracker.update(block_height, signed) panics: the remainder by an empty
\* window, or block_height - 1 for block_height 0 with overflow checks
TrackerUpdatePanics ==
  \E block_height \in 0..MaxTrackerHeight, signed \in BOOLEAN :
    /\ TrackerAlive
    /\ ~(Len(Unwrap(tracker)) > 0 /\ block_height >= 1)
    /\ tracker_call' = [op |-> "update", block_height |-> block_height,
                        signed |-> signed, panicked |-> TRUE]
    /\ UNCHANGED << tracker_frame, tracker_window, tracker >>

\* tracker.is_live(missed_block_threshold)
TrackerIsLive ==
  \E missed_block_threshold \in 0..MaxThreshold :
    /\ TrackerAlive
    /\ tracker_call' = [op |-> "is_live",
                        missed_block_threshold |-> missed_block_threshold,
                        result |-> is_live(Unwrap(tracker), missed_block_threshold)]
    /\ UNCHANGED << tracker_frame, tracker_window, tracker >>

\* LivenessTracker::decode(tracker.encode())
TrackerEncodeDecode ==
  /\ TrackerAlive
  /\ tracker_call' = [op |-> "decode",
                      encoded |-> LivenessTracker_encode(Unwrap(tracker)),
                      result |-> LivenessTracker_decode(
                                   LivenessTracker_encode(Unwrap(tracker)))]
  /\ UNCHANGED << tracker_frame, tracker_window, tracker >>

TrackerNext ==
  \/ TrackerUpdate
  \/ TrackerUpdatePanics
  \/ TrackerIsLive
  \/ TrackerEncodeDecode

TrackerSpec == TrackerInit /\ [][TrackerNext]_vars

----------------------------------------------------------------------------
\* Milli and LinearFee on their own: two operands are drawn and every
\* operation is applied to them. The u64 of Milli is a word of U64_BITS bits
\* and the u128 of the products is wide enough for every product of two words.

U64_BITS == 12
MaxMilliInput == 2
MaxSize == 3
MaxSqrtSteps == 40

U64_MAX == (2 ^ U64_BITS) - 1

\* a computation returned a value / aborted the process (panic)
Returned(v) == [outcome |-> "ok", value |-> v]
Aborted == [outcome |-> "panic", value |-> 0]

\* u64 + u64: with overflow checks an overflow aborts, without it wraps
u64_add(a, b, checks) ==
  IF a + b <= U64_MAX THEN Returned(a + b)
  ELSE IF checks THEN Aborted ELSE Returned((a + b) % (U64_MAX + 1))

\* u64 * u64, likewise
u64_mul(a, b, checks) ==
  IF a * b <= U64_MAX THEN Returned(a * b)
  ELSE IF checks THEN Aborted ELSE Returned((a * b) % (U64_MAX + 1))

\* impl Add for Milli: Milli(self.0 + other.0)
Milli_add(a, b, checks) == u64_add(a, b, checks)

\* impl Mul for Milli: the product in u128, divided by 1000, cast to u64
Milli_mul(a, b) == ((a * b) \div 1000) % (U64_MAX + 1)

\* a division that rounds to the nearest milli
Milli_div_rounding(a, b) ==
  IF b = 0 THEN Aborted
  ELSE Returned((((a * 1000) + (b \div 2)) \div b) % (U64_MAX + 1))

\* impl Div for Milli: self.0 * 1000 in u128, divided by rhs.0 (a zero
\* divisor aborts), cast to u64
Milli_div(a, b) ==
  IF b = 0 THEN Aborted
  ELSE Returned(((a * 1000) \div b) % (U64_MAX + 1))

\* Milli::diff
Milli_diff(a, b) == IF a > b THEN a - b ELSE b - a

\* Milli::improve_sqrt: (estimate + self / estimate) >> 1
improve_sqrt(a, estimate, checks) ==
  LET quotient == Milli_div(a, estimate)
  IN IF quotient.outcome # "ok" THEN Aborted
     ELSE LET result == Milli_add(estimate, quotient.value, checks)
          IN IF result.outcome # "ok" THEN Aborted
             ELSE Returned(result.value \div 2)

RECURSIVE sqrt_loop(_, _, _, _, _)
\* the loop of Milli::sqrt, stopped after steps iterations
sqrt_loop(a, sqrt, improved_sqrt, checks, steps) ==
  IF improved_sqrt.outcome # "ok" THEN Aborted
  ELSE IF Milli_diff(sqrt, improved_sqrt.value) > 1
  THEN IF steps = 0 THEN [outcome |-> "running", value |-> improved_sqrt.value]
       ELSE sqrt_loop(a, improved_sqrt.value,
                      improve_sqrt(a, improved_sqrt.value, checks), checks, steps - 1)
  ELSE improved_sqrt

\* a faulty sqrt: the first improved estimate is returned
Milli_sqrt_one_step(a, checks) == improve_sqrt(a, 1000, checks)

\* Milli::sqrt: the initial estimate is 1.0
Milli_sqrt(a, checks) ==
  sqrt_loop(a, 1000, improve_sqrt(a, 1000, checks), checks, MaxSqrtSteps)

\* Milli::integral: i * 1000
Milli_integral(i, checks) == u64_mul(i, 1000, checks)

\* Milli::to_integral: the ceiling
to_integral(millis) ==
  IF millis % 1000 = 0 THEN millis \div 1000 ELSE (millis \div 1000) + 1

\* Coin::new: values above MAX_COIN are out of bound
Coin_new(v) ==
  IF v > MAX_COIN THEN [outcome |-> "OutOfBound", value |-> 0] ELSE Returned(v)

\* LinearFee::estimate
LinearFee_estimate(constant, coefficient, sz, checks) ==
  LET msz == Milli_integral(sz, checks)
  IN IF msz.outcome # "ok" THEN Aborted
     ELSE LET fee == Milli_add(constant, Milli_mul(coefficient, msz.value), checks)
          IN IF fee.outcome # "ok" THEN Aborted
             ELSE Coin_new(to_integral(fee.value))

\* the operands: the values next to the quarters and below the units, the
\* largest values, and the values whose sum with 1.0 wraps to next to zero
MilliInputs ==
  { m \in 0..U64_MAX :
      \/ m % 250 <= MaxMilliInput
      \/ m % 1000 >= 1000 - MaxMilliInput
      \/ m >= U64_MAX - MaxMilliInput
      \/ (m + 1000) % (U64_MAX + 1) <= MaxMilliInput }

MilliInit ==
  /\ ChainNotStarted
  /\ TrackerUnused
  /\ WalletUnused
  /\ ClientUnused
  /\ milli_a \in MilliInputs
  /\ milli_b \in MilliInputs
  /\ overflow_checks \in BOOLEAN
  /\ milli_call = NoCall

\* what a Milli computation leaves alone
milli_frame == << chain_vars, tracker_vars, wallet_vars, client_vars, milli_a, milli_b, overflow_checks >>

\* a + b
MilliAdd ==
  /\ milli_call' = [op |-> "add", result |-> Milli_add(milli_a, milli_b, overflow_checks)]
  /\ UNCHANGED milli_frame

\* a * b
MilliMul ==
  /\ milli_call' = [op |-> "mul", result |-> Returned(Milli_mul(milli_a, milli_b))]
  /\ UNCHANGED milli_frame

\* a / b
MilliDiv ==
  /\ milli_call' = [op |-> "div", result |-> Milli_div(milli_a, milli_b)]
  /\ UNCHANGED milli_frame

\* (a / b) * b
MilliDivMul ==
  /\ milli_call' =
       [op |-> "div_mul",
        result |-> LET quotient == Milli_div(milli_a, milli_b)
                   IN IF quotient.outcome # "ok" THEN Aborted
                      ELSE Returned(Milli_mul(quotient.value, milli_b))]
  /\ UNCHANGED milli_frame

\* a.sqrt()
MilliSqrt ==
  /\ milli_call' = [op |-> "sqrt", result |-> Milli_sqrt(milli_a, overflow_checks)]
  /\ UNCHANGED milli_frame

\* a.sqrt() * a.sqrt()
MilliSqrtSquared ==
  /\ milli_call' =
       [op |-> "sqrt_squared",
        result |-> LET root == Milli_sqrt(milli_a, overflow_checks)
                   IN IF root.outcome # "ok" THEN root
                      ELSE Returned(Milli_mul(root.value, root.value))]
  /\ UNCHANGED milli_frame

\* LinearFee::new(a, b).estimate(sz)
FeeEstimate ==
  \E sz \in 0..MaxSize :
    /\ milli_call' = [op |-> "estimate", sz |-> sz,
                      result |-> LinearFee_estimate(milli_a, milli_b, sz, overflow_checks)]
    /\ UNCHANGED milli_frame

MilliNext ==
  \/ MilliAdd
  \/ MilliMul
  \/ MilliDiv
  \/ MilliDivMul
  \/ MilliSqrt
  \/ MilliSqrtSquared
  \/ FeeEstimate

MilliSpec == MilliInit /\ [][MilliNext]_vars

----------------------------------------------------------------------------
\* Properties

\* the staking accounts of the (uncommitted) account trie that are jailed
JailedAddrs ==
  {a \in DOMAIN uncommitted_account_root_hash :
     is_jailed(uncommitted_account_root_hash[a])}

\* the inputs a transaction consumes
Inputs(tx) == IF "inputs" \in DOMAIN tx THEN tx.inputs ELSE {}

\* the fee reported for an accepted transaction: the fee attribute of its
\* valid_txs event
ReportedFee(response) == response.events[1].attributes[1].value

\* a step that serves a request and does not abort
Served(op) == req'.op = op /\ resp'.op = op /\ ~halted'

\* C1 (as stated): at every point of a run every jailed staking account has
\* voting power 0: its entry in validator_voting_power is zero, and no
\* validator update with non-zero power is produced for it.
C1_JailedPowerZeroAlways ==
  \A a \in JailedAddrs :
    /\ a \in DOMAIN validator_voting_power => validator_voting_power[a] = 0
    /\ resp.op = "end_block" =>
         \A i \in DOMAIN resp.validator_updates :
           resp.validator_updates[i].address = a => resp.validator_updates[i].power = 0

\* C1 (amended): for every jailed staking account, the entry in
\* validator_voting_power is zero once EndBlock has run for the block in
\* which it was jailed (and after a restart); between BeginBlock and EndBlock
\* a non-zero entry is accompanied by a pending zero in
\* power_changed_in_block; every pending change and every validator update
\* for a jailed account has power 0.
C1_JailedPowerZeroFromEndBlock ==
  \A a \in JailedAddrs :
    /\ a \in DOMAIN power_changed_in_block => power_changed_in_block[a] = 0
    /\ (a \in DOMAIN validator_voting_power /\ validator_voting_power[a] # 0) =>
         (phase = "begun" /\ a \in DOMAIN power_changed_in_block)
    /\ resp.op = "end_block" =>
         \A i \in DOMAIN resp.validator_updates :
           resp.validator_updates[i].address = a => resp.validator_updates[i].power = 0

\* C1 witness: EndBlock answered with a zero-power update for a jailed
\* validator, whose entry in the map is now zero
C1_JailedValidatorEvicted ==
  /\ resp.op = "end_block"
  /\ \E a \in JailedAddrs :
       /\ a \in DOMAIN validator_voting_power
       /\ validator_voting_power[a] = 0
       /\ \E i \in DOMAIN resp.validator_updates :
            resp.validator_updates[i].address = a /\ resp.validator_updates[i].power = 0

\* C2: no transaction output is consumed by two accepted transactions of the
\* chain; an accepted DeliverTx is the last transaction of the block; a
\* DeliverTx naming an output that a transaction of the block in progress or
\* of a committed block consumed is answered with code 1, the process does
\* not abort and the block stays open for EndBlock and Commit.
C2_NoDoubleSpend ==
  /\ \A i, j \in DOMAIN History :
       i # j => Inputs(History[i]) \cap Inputs(History[j]) = {}
  /\ (resp.op = "deliver_tx" /\ resp.code = 0) =>
       (delivered_txs # <<>> /\ delivered_txs[Len(delivered_txs)] = req.tx)
  /\ (req.op = "deliver_tx"
      /\ \E i \in DOMAIN committed_txs : Inputs(committed_txs[i]) \cap Inputs(req.tx) # {}) =>
       (~halted /\ resp.op = "deliver_tx" /\ resp.code = 1 /\ phase = "begun")
  /\ (resp.op = "deliver_tx" /\ resp.code = 1) =>
       (~halted /\ phase = "begun")

\* C2 witness: a transaction that consumes an output already consumed by a
\* transaction of the same block was rejected
C2_SameBlockDoubleSpendRejected ==
  /\ resp.op = "deliver_tx"
  /\ resp.code = 1
  /\ \E i \in DOMAIN delivered_txs : Inputs(delivered_txs[i]) \cap Inputs(req.tx) # {}
  /\ req.tx.witness_ok
  /\ req.sgx_ok

\* C3: a DeliverTx answered with code 0 raises rewards_pool.remaining by
\* exactly the fee reported for the transaction and sets
\* rewards_pool_updated; a DeliverTx answered with another code leaves both
\* as they were.
C3_FeeCreditedToRewardsPool ==
  [][Served("deliver_tx") =>
       IF resp'.code = 0
       THEN /\ Unwrap(last_state').rewards_pool.remaining =
                 Unwrap(last_state).rewards_pool.remaining + ReportedFee(resp')
            /\ rewards_pool_updated'
       ELSE /\ Unwrap(last_state').rewards_pool = Unwrap(last_state).rewards_pool
            /\ UNCHANGED rewards_pool_updated]_vars

\* C3 witness: two transactions were accepted in one block and the rewards
\* pool grew by their two fees
C3_TwoFeesCollected ==
  /\ resp.op = "deliver_tx"
  /\ resp.code = 0
  /\ ReportedFee(resp) = 1
  /\ Len(delivered_txs) = 2
  /\ rewards_pool_updated
  /\ Unwrap(last_state).rewards_pool.remaining =
       Unwrap(db_last_state).rewards_pool.remaining + 2

\* the sum of bonded + unbonded over all staking accounts of a trie plus the
\* remaining of a rewards pool
Total(root, state) ==
  SumOver([a \in DOMAIN root |-> root[a].bonded + root[a].unbonded], DOMAIN root)
  + state.rewards_pool.remaining

\* a step that serves one of the block requests with the state initialised
BlockStep ==
  /\ IsSome(last_state)
  /\ IsSome(last_state')
  /\ \/ Served("begin_block")
     \/ Served("deliver_tx")
     \/ Served("end_block")
     \/ Served("commit")

UpdatedAccount(tx) ==
  IF tx.kind = "DepositStakeTx" THEN tx.to_staked_account ELSE tx.from

\* the account trie of the persisted snapshot
CommittedRoot(snapshot) ==
  IF IsSome(snapshot) THEN Unwrap(snapshot).last_account_root_hash ELSE EmptyMap

\* C5: a DeliverTx accepted for a deposit, unbond, withdraw, unjail or node
\* join strictly increases the nonce of the staking account it updates; no
\* other account and no other request (a rejected DeliverTx, CheckTx, Info,
\* BeginBlock with jailing and slashing, EndBlock, Commit) changes a nonce;
\* the nonces of the persisted trie never decrease, restarts included.
C5_NonceStrictlyIncreases ==
  [][/\ (req'.op \notin {"none", "startup"} /\ ~halted') =>
          \A a \in (DOMAIN uncommitted_account_root_hash)
                     \cap (DOMAIN uncommitted_account_root_hash') :
            IF /\ Served("deliver_tx")
               /\ resp'.code = 0
               /\ req'.tx.kind # "TransferTx"
               /\ a = UpdatedAccount(req'.tx)
            THEN uncommitted_account_root_hash'[a].nonce >
                   uncommitted_account_root_hash[a].nonce
            ELSE uncommitted_account_root_hash'[a].nonce =
                   uncommitted_account_root_hash[a].nonce
     /\ \A a \in DOMAIN CommittedRoot(db_last_state) :
          /\ a \in DOMAIN CommittedRoot(db_last_state')
          /\ CommittedRoot(db_last_state')[a].nonce >= CommittedRoot(db_last_state)[a].nonce
    ]_vars

\* C5 witness: an account was updated by two accepted transactions and its
\* nonce, 0 at genesis, is 2 in the persisted trie
C5_NonceTwo ==
  \E a \in DOMAIN CommittedRoot(db_last_state) :
    /\ CommittedRoot(db_last_state)[a].nonce = 2
    /\ Cardinality({i \in DOMAIN committed_txs :
                      /\ committed_txs[i].kind # "TransferTx"
                      /\ UpdatedAccount(committed_txs[i]) = a}) = 2

\* C6 (as stated): an Info answered while a block is in progress reports the
\* app hash, the height and the serialized state of the persisted snapshot
\* of the last committed block.
C6_InfoReportsCommittedState ==
  (resp.op = "info" /\ phase \in {"begun", "ended"}) =>
    /\ resp.last_block_app_hash = Unwrap(db_last_state).last_apphash
    /\ resp.last_block_height = Unwrap(db_last_state).last_block_height
    /\ resp.data = db_last_state

\* C7 (as stated): a CheckTx changes none of the uncommitted account root,
\* delivered_txs, last_state, power_changed_in_block, the UTXO spend map
\* (persisted and buffered) and the sealed transactions stored for the
\* enclave.
C7_CheckTxMutatesNothing ==
  [][Served("check_tx") =>
       UNCHANGED << uncommitted_account_root_hash, delivered_txs, last_state,
                    power_changed_in_block, db_tx_meta, db_buffered, txdb >>]_vars

\* the request carries a transaction that does not parse or that fails
\* validation against the current state
FailsValidation(tx, sgx_ok) ==
  \/ tx.kind = "garbage"
  \/ /\ IsSome(last_state)
     /\ \/ ~validate_tx_req(tx, sgx_ok).ok
        \/ ~tx.witness_ok
        \/ ~sgx_ok

\* C8: a CheckTx or DeliverTx whose bytes do not parse or whose validation
\* fails (a forged witness, a spent input, an enclave rejection, ...) is
\* answered with code 1 and a non-empty log and the process does not abort;
\* such a DeliverTx leaves the uncommitted account root, delivered_txs, the
\* rewards pool, power_changed_in_block, new_nodes_in_block and the buffered
\* UTXO map unchanged and emits no event.
C8_FailureIsRecovered ==
  [][(req'.op \in {"check_tx", "deliver_tx"} /\ FailsValidation(req'.tx, req'.sgx_ok)) =>
       /\ ~halted'
       /\ resp'.op = req'.op
       /\ resp'.code = 1
       /\ resp'.log # ""
       /\ req'.op = "deliver_tx" =>
            /\ UNCHANGED << uncommitted_account_root_hash, delivered_txs,
                            power_changed_in_block, new_nodes_in_block, db_buffered,
                            rewards_pool_updated >>
            /\ Unwrap(last_state').rewards_pool = Unwrap(last_state).rewards_pool
            /\ resp'.events = <<>>]_vars

\* C8 witness: the enclave rejected a well-formed transaction delivered
\* after another transaction of the block was accepted
C8_EnclaveRejectionRecovered ==
  /\ req.op = "deliver_tx"
  /\ resp.op = "deliver_tx"
  /\ resp.code = 1
  /\ resp.log = "verification failed: EnclaveRejected"
  /\ req.tx.witness_ok
  /\ ~req.sgx_ok
  /\ delivered_txs # <<>>
  /\ ~halted

\* C10: Info returns the app hash and the height of the persisted snapshot
\* when there is one, and genesis_app_hash with height 0 when there is none;
\* the snapshot persisted by InitChain has height 0 and the genesis app hash.
C10_InfoReportsSnapshot ==
  /\ resp.op = "info" =>
       IF IsSome(db_last_state)
       THEN /\ resp.last_block_app_hash = Unwrap(db_last_state).last_apphash
            /\ resp.last_block_height = Unwrap(db_last_state).last_block_height
       ELSE /\ resp.last_block_app_hash = genesis_app_hash
            /\ resp.last_block_height = 0
  /\ (IsSome(db_last_state) /\ Unwrap(db_last_state).last_block_height = 0) =>
       Unwrap(db_last_state).last_apphash = genesis_app_hash

\* C10 witness: Info answered, while the second block is in progress with an
\* accepted transaction, with the height of the first block
C10_InfoDuringSecondBlock ==
  /\ resp.op = "info"
  /\ resp.last_block_height = 1
  /\ resp.last_block_app_hash # genesis_app_hash
  /\ phase = "begun"
  /\ delivered_txs # <<>>

\* C11: an InitChain whose configuration is valid but whose computed genesis
\* app hash differs from the expected genesis_app_hash aborts the process: no
\* genesis state becomes current (last_state stays absent), nothing is
\* written to the node-info store and no validator set is returned.
C11_GenesisHashMismatchIsFatal ==
  [][(/\ req'.op = "init_chain"
      /\ validate_config(req'.conf)
      /\ GenesisAppHash(req'.conf, GenesisTime) # genesis_app_hash) =>
       /\ halted'
       /\ last_state' = None
       /\ db_last_state = None
       /\ db_last_state' = None
       /\ resp'.op # "init_chain"
       /\ validator_voting_power' = EmptyMap]_vars

\* C11 witness: the process has aborted on an InitChain with a valid
\* configuration whose genesis app hash is not the expected one
C11_AbortedOnMismatch ==
  /\ halted
  /\ req.op = "init_chain"
  /\ validate_config(req.conf)
  /\ GenesisAppHash(req.conf, GenesisTime) # genesis_app_hash
  /\ last_state = None
  /\ db_last_state = None

\* C12: startup sends CheckChain with the last app hash of the persisted
\* snapshot, or with none when there is no snapshot; it aborts whenever the
\* enclave answers that its view disagrees and proceeds (restoring the
\* persisted snapshot as the current state) only when the enclave agrees.
C12_StartupChecksEnclave ==
  [][req'.op = "startup" =>
       /\ req'.check_chain.op = "CheckChain"
       /\ req'.check_chain.last_app_hash =
            (IF IsSome(db_last_state) THEN Some(Unwrap(db_last_state).last_apphash) ELSE None)
       /\ halted' = ~req'.enclave_ok
       /\ req'.enclave_ok =>
            /\ resp' = Started
            /\ last_state' = db_last_state
            /\ UNCHANGED db_last_state
       /\ ~req'.enclave_ok => (last_state' = None /\ resp' # Started)]_vars

\* C12 witness: with the snapshot of a committed block persisted, the enclave
\* disagreed on the last app hash at startup and the process aborted
C12_AbortedOnDisagreement ==
  /\ halted
  /\ req.op = "startup"
  /\ ~req.enclave_ok
  /\ IsSome(db_last_state)
  /\ Unwrap(db_last_state).last_block_height >= 1
  /\ req.check_chain.last_app_hash = Some(Unwrap(db_last_state).last_apphash)

\* C13: a DeliverTx of an UnjailTx for a jailed account is rejected with a
\* non-zero code and leaves the account as it was (jailed) while block_time <
\* jailed_until; with a valid witness and block_time >= jailed_until it is
\* accepted and the stored account has no jailed_until and no punishment.
C13_UnjailOnlyAfterJailedUntil ==
  [][(/\ Served("deliver_tx")
      /\ req'.tx.kind = "UnjailTx"
      /\ req'.tx.from \in DOMAIN uncommitted_account_root_hash
      /\ is_jailed(uncommitted_account_root_hash[req'.tx.from])) =>
       LET a == req'.tx.from
           account == uncommitted_account_root_hash[a]
           stored == uncommitted_account_root_hash'[a]
       IN IF Unwrap(last_state).block_time < Unwrap(account.jailed_until)
          THEN /\ resp'.code # 0
               /\ stored = account
               /\ is_jailed(stored)
          ELSE req'.tx.witness_ok =>
                 /\ resp'.code = 0
                 /\ stored.jailed_until = None
                 /\ stored.punishment = None
                 /\ ~is_jailed(stored)]_vars

\* C13 witness: an UnjailTx was accepted, at a block time of at least 2, for
\* an account that was jailed, and the stored account is no longer jailed
C13_UnjailedAfterWaiting ==
  /\ resp.op = "deliver_tx"
  /\ resp.code = 0
  /\ req.tx.kind = "UnjailTx"
  /\ ~is_jailed(uncommitted_account_root_hash[req.tx.from])
  /\ uncommitted_account_root_hash[req.tx.from].nonce = 1
  /\ Unwrap(last_state).block_time >= 2

\* C14: while a staking account is jailed, the only transaction updating it
\* that DeliverTx accepts is UnjailTx; the account a successful validation
\* returns (in CheckTx or DeliverTx) is never jailed, so the branch
\* unreachable!("Validation should not be successful for jailed accounts")
\* of DeliverTx is never taken; the account an accepted DeliverTx stores is
\* not jailed.
C14_JailedAccountOnlyUnjails ==
  [][(req'.op \in {"check_tx", "deliver_tx"} /\ IsSome(last_state)) =>
       LET r == validate_tx_req(req'.tx, req'.sgx_ok)
       IN /\ (r.ok /\ IsSome(r.account)) =>
               /\ ~is_jailed(Unwrap(r.account))
               /\ ~HitsUnreachable(r.account, validator_voting_power,
                                   power_changed_in_block)
          /\ (Served("deliver_tx") /\ resp'.code = 0 /\ req'.tx.kind # "TransferTx") =>
               LET a == UpdatedAccount(req'.tx)
               IN /\ ~is_jailed(uncommitted_account_root_hash'[a])
                  /\ (a \in DOMAIN uncommitted_account_root_hash
                      /\ is_jailed(uncommitted_account_root_hash[a])) =>
                       req'.tx.kind = "UnjailTx"]_vars

\* C14 witness: a well-formed UnbondStakeTx of a jailed validator, which has
\* the bonded amount the transaction needs, was rejected
C14_JailedValidatorUnbondRejected ==
  /\ resp.op = "deliver_tx"
  /\ resp.code = 1
  /\ req.tx.kind = "UnbondStakeTx"
  /\ req.tx.witness_ok
  /\ req.tx.from \in DOMAIN validator_voting_power
  /\ is_jailed(uncommitted_account_root_hash[req.tx.from])
  /\ uncommitted_account_root_hash[req.tx.from].bonded >= req.tx.value + 1

\* the pending slashes of a state
Schedule(state) == Unwrap(state).punishment.slashing_schedule

\* the accounts whose pending slash is due at the block time of a state
Due(schedules, state) ==
  {a \in DOMAIN schedules : schedules[a].slashing_time <= Unwrap(state).block_time}

Punished(response) ==
  UNION { {response.events[i].attributes[j] : j \in DOMAIN response.events[i].attributes} :
            i \in {k \in DOMAIN response.events : response.events[k].type = "jail_validators"} }

\* the account is named by the byzantine evidence of a BeginBlock request
NamedByEvidence(a, state, request) ==
  \E i \in DOMAIN request.evidence :
    tendermint_validator_addresses(Unwrap(state))[request.evidence[i]] = a

\* the validator of the account is not live in a state
NotLive(a, state) ==
  \E k \in DOMAIN Unwrap(state).punishment.validator_liveness :
    /\ tendermint_validator_addresses(Unwrap(state))[k] = a
    /\ ~is_live(Unwrap(state).punishment.validator_liveness[k],
                Unwrap(state).network_params.missed_block_threshold)

\* the largest slash ratio among the faults a BeginBlock records for an account
FaultRatio(a, state, request) ==
  LET params == Unwrap(state).network_params
      byz == IF NamedByEvidence(a, state, request) THEN params.byzantine_slash_percent ELSE 0
      live == IF NotLive(a, state) THEN params.liveness_slash_percent ELSE 0
  IN Max(byz, live)

\* C16: a BeginBlock that records a fault for an account without a pending
\* slash creates one scheduled for block_time + slash_wait_period; for an
\* account with a pending slash (not executed in that block) the ratio
\* becomes the maximum of the old ratio and the ratios of the new faults, the
\* kind becomes ByzantineFault if the old kind or a new fault is Byzantine
\* and stays NonLive otherwise, and the scheduled time stays; the pending
\* slashes of the accounts without a new fault stay as they are.
C16_ScheduleCreatedOrMerged ==
  [][Served("begin_block") =>
       LET old == Schedule(last_state)
           new == Schedule(last_state')
           t == Unwrap(last_state').block_time
           wait == Unwrap(last_state').network_params.slash_wait_period
           kind(a) == IF NamedByEvidence(a, last_state, req') THEN "ByzantineFault"
                      ELSE "NonLive"
       IN /\ \A a \in Punished(resp') \ DOMAIN old :
               /\ a \in DOMAIN new
               /\ new[a].slashing_time = t + wait
               /\ new[a].slash_ratio = FaultRatio(a, last_state', req')
               /\ new[a].punishment_kind = kind(a)
          /\ \A a \in (DOMAIN old) \ Due(old, last_state') :
               /\ a \in DOMAIN new
               /\ new[a].slashing_time = old[a].slashing_time
               /\ IF a \in Punished(resp')
                  THEN /\ new[a].slash_ratio =
                            Max(old[a].slash_ratio, FaultRatio(a, last_state', req'))
                       /\ new[a].punishment_kind =
                            (IF old[a].punishment_kind = "ByzantineFault"
                             THEN "ByzantineFault" ELSE kind(a))
                  ELSE new[a] = old[a]
          /\ (DOMAIN new) \subseteq (DOMAIN old) \cup Punished(resp')]_vars

\* C16 witness: a pending slash for a validator that was not live was
\* promoted to ByzantineFault with the larger ratio by evidence in a later
\* block, its scheduled time being the one set at creation
C16_PromotedToByzantine ==
  /\ resp.op = "begin_block"
  /\ \E a \in DOMAIN Schedule(last_state) :
       /\ a \in DOMAIN Schedule(db_last_state)
       /\ a \in Punished(resp)
       /\ Schedule(db_last_state)[a].punishment_kind = "NonLive"
       /\ Schedule(last_state)[a].punishment_kind = "ByzantineFault"
       /\ Schedule(last_state)[a].slash_ratio > Schedule(db_last_state)[a].slash_ratio
       /\ Schedule(last_state)[a].slashing_time = Schedule(db_last_state)[a].slashing_time
       /\ Schedule(last_state)[a].slashing_time <
            Unwrap(last_state).block_time + Unwrap(last_state).network_params.slash_wait_period

\* the accounts a BeginBlock selects for punishment: named by the evidence of
\* the request, or owning a tracker that is not live after the votes of the
\* request were applied
SelectedForPunishment(before, after, request) ==
  { a \in DOMAIN uncommitted_account_root_hash :
      NamedByEvidence(a, before, request) \/ NotLive(a, after) }

\* C17: every account selected for punishment by a BeginBlock is jailed by
\* that BeginBlock: after it the account is jailed until block_time +
\* jail_duration, it carries a punishment with the same time, and
\* power_changed_in_block maps it to zero.
C17_PunishedAccountsJailed ==
  [][Served("begin_block") =>
       LET t == Unwrap(last_state').block_time
           d == Unwrap(last_state').network_params.jail_duration
       IN \A a \in SelectedForPunishment(last_state, last_state', req') :
            LET account == Unwrap(get_account(a, uncommitted_account_root_hash'))
            IN /\ a \in Punished(resp')
               /\ account.jailed_until = Some(t + d)
               /\ IsSome(account.punishment)
               /\ Unwrap(account.punishment).jailed_until = t + d
               /\ a \in DOMAIN power_changed_in_block'
               /\ power_changed_in_block'[a] = 0]_vars

\* C17 witness: a validator that missed a block, with no evidence against
\* it, was jailed by the BeginBlock that found it not live
C17_NonLiveValidatorJailed ==
  /\ resp.op = "begin_block"
  /\ req.evidence = <<>>
  /\ \E a \in SelectedForPunishment(db_last_state, last_state, req) :
       /\ ~is_jailed(Unwrap(get_account(a, Unwrap(db_last_state).last_account_root_hash)))
       /\ is_jailed(Unwrap(get_account(a, uncommitted_account_root_hash)))
       /\ Unwrap(Unwrap(get_account(a, uncommitted_account_root_hash)).punishment).kind = "NonLive"
       /\ a \in DOMAIN validator_voting_power
       /\ validator_voting_power[a] > 0
       /\ power_changed_in_block[a] = 0

\* the power changes of the block once deliver_tx has registered the node
\* of an accepted node join, before the voting-power rule is applied
PowerChangedBeforeRule(tx, new_power) ==
  IF tx.kind = "NodeJoinTx"
  THEN MapPut(power_changed_in_block, UpdatedAccount(tx), new_power)
  ELSE power_changed_in_block

\* C18: an accepted DeliverTx that updates a staking account present in
\* validator_voting_power or power_changed_in_block records, with old the
\* recorded voting power of the account (zero without one) and new its
\* updated bonded amount: new when new >= required stake and new > old,
\* otherwise zero when old >= required stake and new < old, and otherwise
\* nothing; for an account that is not a validator, and for every other
\* account, power_changed_in_block is not modified.
C18_PowerChangeRule ==
  [][Served("deliver_tx") /\ resp'.code = 0 /\ req'.tx.kind # "TransferTx" =>
       LET a == UpdatedAccount(req'.tx)
           new == uncommitted_account_root_hash'[a].bonded
           old == IF a \in DOMAIN validator_voting_power
                  THEN validator_voting_power[a] ELSE 0
           min == Unwrap(last_state).network_params.required_council_node_stake
           before == PowerChangedBeforeRule(req'.tx, new)
           validator == a \in DOMAIN validator_voting_power \/ a \in DOMAIN before
       IN IF validator /\ new >= min /\ new > old
          THEN power_changed_in_block' = MapPut(before, a, new)
          ELSE IF validator /\ old >= min /\ new < old
          THEN power_changed_in_block' = MapPut(before, a, 0)
          ELSE power_changed_in_block' = before]_vars

\* C18 witness: a validator with the required stake unbonded part of its
\* stake; its recorded power was larger, so the change recorded for the
\* block is zero
C18_UnbondRecordsZero ==
  /\ resp.op = "deliver_tx"
  /\ resp.code = 0
  /\ ~halted
  /\ req.tx.kind = "UnbondStakeTx"
  /\ req.tx.from \in DOMAIN validator_voting_power
  /\ req.tx.from \in DOMAIN power_changed_in_block
  /\ power_changed_in_block[req.tx.from] = 0
  /\ ~is_jailed(uncommitted_account_root_hash[req.tx.from])
  /\ uncommitted_account_root_hash[req.tx.from].bonded <
       validator_voting_power[req.tx.from]
  /\ validator_voting_power[req.tx.from] >=
       Unwrap(last_state).network_params.required_council_node_stake

RECURSIVE MissedBits(_)
\* the number of false bits of a window, counted bit by bit
MissedBits(liveness) ==
  IF liveness = <<>> THEN 0
  ELSE (IF Head(liveness) THEN 0 ELSE 1) + MissedBits(Tail(liveness))

\* C19: whatever updates a tracker received, is_live(k) answers true exactly
\* when the number of false bits of its window is strictly less than k, for
\* every k; a tracker that was just constructed has no false bit.
C19_LiveIffFewerMissesThanThreshold ==
  IsSome(tracker) =>
    /\ \A k \in 0..MaxThreshold :
         is_live(Unwrap(tracker), k) <=> MissedBits(Unwrap(tracker)) < k
    /\ tracker_call.op = "is_live" =>
         (tracker_call.result <=>
            MissedBits(Unwrap(tracker)) < tracker_call.missed_block_threshold)
    /\ tracker_call.op = "new" => MissedBits(Unwrap(tracker)) = 0

\* C19 witness: after updates that recorded misses, is_live was asked with a
\* threshold equal to the number of misses and answered false
C19_NotLiveAtThreshold ==
  /\ IsSome(tracker)
  /\ tracker_call.op = "is_live"
  /\ ~tracker_call.result
  /\ tracker_call.missed_block_threshold >= 2
  /\ MissedBits(Unwrap(tracker)) = tracker_call.missed_block_threshold
  /\ MissedBits(Unwrap(tracker)) < Len(Unwrap(tracker))

C21_DecodeInvertsEncode ==
  IsSome(tracker) =>
    /\ LivenessTracker_decode(LivenessTracker_encode(Unwrap(tracker))) = tracker
    /\ tracker_call.op = "decode" =>
         /\ tracker_call.result = tracker
         /\ Len(tracker_call.encoded) = 3 + ((tracker_window + 7) \div 8)

\* C21 witness: a tracker with a window longer than one byte and not a
\* multiple of eight, with a miss recorded in its last byte and one in its
\* first, was encoded and decoded
C21_TwoByteWindowDecoded ==
  /\ IsSome(tracker)
  /\ tracker_call.op = "decode"
  /\ tracker_window > 8
  /\ tracker_window % 8 # 0
  /\ ~Unwrap(tracker)[tracker_window]
  /\ ~Unwrap(tracker)[1]
  /\ Unwrap(tracker)[2]
  /\ IsSome(tracker_call.result)

\* C22: the sum of two Milli values is min(a + b, largest value): an
\* addition returns, and returns the saturated sum.
C22_AdditionSaturates ==
  milli_call.op = "add" =>
    milli_call.result = Returned(Min(milli_a + milli_b, U64_MAX))

\* the quotient a * 1000 / b fits the u64 of Milli
QuotientFits(a, b) == b # 0 /\ (a * 1000) \div b <= U64_MAX

C25_EstimateCeilOrOutOfBound ==
  milli_call.op = "estimate" =>
    LET exact == to_integral(milli_a + milli_b * milli_call.sz)
    IN IF exact <= MAX_COIN
       THEN milli_call.result = Returned(exact)
       ELSE milli_call.result.outcome = "OutOfBound"

\* the distributed balances of a configuration plus its rewards pool
ConfigTotal(conf) ==
  SumOver([a \in DOMAIN conf.distribution |-> conf.distribution[a].amount],
          DOMAIN conf.distribution) + conf.rewards_pool

\* C26: a configuration validates only if its balances and rewards pool add
\* up to the total supply, so a configuration that validates does not
\* validate with its rewards pool raised by 1; an InitChain with a
\* configuration that does not validate aborts the process, with no state
\* initialised or persisted and no response, and an InitChain that is
\* answered had a configuration that adds up to the total supply.
C26_GenesisTotalIsChecked ==
  [][req'.op = "init_chain" =>
       /\ validate_config(req'.conf) =>
            /\ ConfigTotal(req'.conf) = TotalSupply
            /\ ~validate_config([req'.conf EXCEPT !.rewards_pool = @ + 1])
       /\ ConfigTotal(req'.conf) # TotalSupply =>
            /\ halted'
            /\ resp' = NoResponse
            /\ last_state' = None
            /\ db_last_state' = db_last_state
            /\ validator_voting_power' = EmptyMap
       /\ resp'.op = "init_chain" => ConfigTotal(req'.conf) = TotalSupply]_vars

\* C26 witness: the process aborted on an InitChain whose configuration is
\* the valid one with the rewards pool raised by 1, although the expected
\* genesis hash was the hash of that very configuration
C26_AbortedOnRaisedRewardsPool ==
  /\ halted
  /\ req.op = "init_chain"
  /\ ConfigTotal(req.conf) = TotalSupply + 1
  /\ validate_config([req.conf EXCEPT !.rewards_pool = @ - 1])
  /\ genesis_app_hash = GenesisAppHash(req.conf, GenesisTime)
  /\ last_state = None
  /\ db_last_state = None

----------------------------------------------------------------------------
\* Wallet synchronisation (client-core/src/wallet/syncer_logic.rs)

\* transactions of the ledger the wallets are synchronised with
MaxLedger == 3

\* blocks handed to one handle_blocks call (batch_size of the syncer)
MaxBatch == 2

\* the value of the output created by the transaction without inputs
MintValue == 100

\* fee paid by a transaction that pays one
TransferFee == 10

\* a transfer address that belongs to no wallet of the client
ExternalAddr == 3

TransferAddrs == Wallets \cup {ExternalAddr}

\* wallet.transfer_addresses()
transfer_addresses(wallet) == {wallet}

\* TxoPointer::new(id, index); the id of a transaction is its place in the ledger
TxoPointer_new(id, index) == [id |-> id, index |-> index]

TxOut_new(address, value) == [address |-> address, value |-> value]

\* the output a pointer names, for a pointer into the ledger
LedgerOutput(pointer) == ledger[pointer.id].outputs[pointer.index]

\* the pointers to the outputs of the first n transactions of the ledger;
\* outputs are numbered from 1 here, from 0 in TxoPointer
LedgerPointers(n) == UNION { { TxoPointer_new(id, ix) : ix \in 1..Len(ledger[id].outputs) } : id \in 1..n }

\* the pointers spent by the first n transactions of the ledger
LedgerSpent(n) == UNION { { ledger[id].inputs[k] : k \in 1..Len(ledger[id].inputs) } : id \in 1..n }

\* sum_outputs: the amounts of the ledger stay far below the cap of the coin
\* type, so that sum_coins returns the sum
RECURSIVE sum_outputs(_)
sum_outputs(outputs) == IF outputs = <<>> THEN 0 ELSE Head(outputs).value + sum_outputs(Tail(outputs))

\* the outputs whose address belongs to the wallet, in order
RECURSIVE outputs_of(_, _)
outputs_of(wallet, outputs) == IF outputs = <<>> THEN <<>> ELSE (IF Head(outputs).address \in transfer_addresses(wallet) THEN <<Head(outputs)>> ELSE <<>>) \o outputs_of(wallet, Tail(outputs))

\* wallet_state.get_output(input): the output if the wallet state holds it
\* unspent or holds its transaction in the history, Ok(None) for a
\* transaction the wallet state does not hold, Err for an index the
\* transaction has not
WalletState_get_output(wallet_state, input) ==
  LET known == { k \in 1..Len(wallet_state.transaction_history) : wallet_state.transaction_history[k].transaction_id = input.id }
  IN IF input \in DOMAIN wallet_state.unspent_transactions
       THEN [ok |-> TRUE, output |-> Some(wallet_state.unspent_transactions[input])]
     ELSE IF known = {} THEN [ok |-> TRUE, output |-> None]
     ELSE LET outputs == wallet_state.transaction_history[CHOOSE k \in known : TRUE].outputs
          IN IF input.index <= Len(outputs)
               THEN [ok |-> TRUE, output |-> Some(outputs[input.index])]
               ELSE [ok |-> FALSE, output |-> None]

\* decorate_inputs: every raw input with the output the wallet state holds
\* for it; InputIndexInvalid when get_output fails for one of them
decorate_inputs(wallet_state, raw_inputs) ==
  LET got == [k \in 1..Len(raw_inputs) |-> WalletState_get_output(wallet_state, raw_inputs[k])]
  IN IF \E k \in 1..Len(raw_inputs) : ~got[k].ok
       THEN [ok |-> FALSE, error |-> "InputIndexInvalid"]
       ELSE [ok |-> TRUE, inputs |-> [k \in 1..Len(raw_inputs) |-> [pointer |-> raw_inputs[k], output |-> got[k].output]]]

\* our_output of calculate_balance_change
our_output(wallet, input) ==
  IF IsSome(input.output) /\ Unwrap(input.output).address \in transfer_addresses(wallet) THEN input.output ELSE None

\* calculate_balance_change: outgoing when the inputs are not empty and every
\* one of them spends an output of the wallet, an error when only some do,
\* else incoming for the outputs of the wallet (no change without any)
calculate_balance_change(wallet, inputs, outputs) ==
  LET spent_outputs == IF inputs # <<>> /\ \A k \in 1..Len(inputs) : IsSome(our_output(wallet, inputs[k]))
                         THEN Some([k \in 1..Len(inputs) |-> Unwrap(inputs[k].output)]) ELSE None
      total_output == sum_outputs(outputs)
      total_output_ours == sum_outputs(outputs_of(wallet, outputs))
  IN IF ~IsSome(spent_outputs)
       THEN IF \E k \in 1..Len(inputs) : IsSome(our_output(wallet, inputs[k]))
              THEN [ok |-> FALSE, error |-> "InputFromMultipleWallets"]
              ELSE [ok |-> TRUE, change |-> IF total_output_ours = 0 THEN [kind |-> "NoChange"] ELSE [kind |-> "Incoming", value |-> total_output_ours]]
       ELSE LET total_input == sum_outputs(Unwrap(spent_outputs))
            IN IF total_input < total_output
                 THEN [ok |-> FALSE, error |-> "OutputGreaterThanInput"]
                 ELSE [ok |-> TRUE, change |-> [kind |-> "Outgoing", fee |-> total_input - total_output, value |-> total_output - total_output_ours]]

\* on_transaction_change: the operations the transaction adds to the memento
on_transaction_change(wallet, memento, transaction_change) ==
  LET inputs == transaction_change.inputs
      outputs == transaction_change.outputs
      removed == [k \in 1..Len(inputs) |-> [op |-> "remove_unspent_transaction", pointer |-> inputs[k].pointer]]
      RECURSIVE added(_)
      added(i) == IF i > Len(outputs) THEN <<>>
                  ELSE (IF outputs[i].address \in transfer_addresses(wallet)
                          THEN << [op |-> "add_unspent_transaction", pointer |-> TxoPointer_new(transaction_change.transaction_id, i), output |-> outputs[i]] >>
                          ELSE <<>>) \o added(i + 1)
  IN memento \o removed \o added(1) \o << [op |-> "add_transaction_change", change |-> transaction_change] >>

\* handle_transaction: the memento with the operations of the transaction,
\* or the error of decorate_inputs or calculate_balance_change
handle_transaction(wallet, wallet_state, memento, transaction_id) ==
  LET transaction == ledger[transaction_id]
      inputs == decorate_inputs(wallet_state, transaction.inputs)
      balance_change == calculate_balance_change(wallet, inputs.inputs, transaction.outputs)
  IN IF ~inputs.ok THEN inputs
     ELSE IF ~balance_change.ok THEN balance_change
     ELSE [ok |-> TRUE, memento |-> on_transaction_change(wallet, memento, [transaction_id |-> transaction_id, inputs |-> inputs.inputs, outputs |-> transaction.outputs, balance_change |-> balance_change.change])]

\* handle_blocks: the transactions of the batch are handled in order against
\* the wallet state the batch started with; the first error ends the batch
RECURSIVE handle_blocks(_, _, _, _)
handle_blocks(wallet, wallet_state, memento, transaction_ids) ==
  IF transaction_ids = <<>> THEN [ok |-> TRUE, memento |-> memento]
  ELSE LET handled == handle_transaction(wallet, wallet_state, memento, Head(transaction_ids))
       IN IF ~handled.ok THEN handled
          ELSE handle_blocks(wallet, wallet_state, handled.memento, Tail(transaction_ids))

\* balance + balance_change
Coin_add_change(balance, change) ==
  CASE change.kind = "Incoming" -> balance + change.value
    [] change.kind = "Outgoing" -> balance - (change.value + change.fee)
    [] OTHER -> balance

\* wallet_state.apply_memento(memento): the operations in order
RECURSIVE apply_memento(_, _)
apply_memento(wallet_state, memento) ==
  IF memento = <<>> THEN wallet_state
  ELSE LET o == Head(memento)
           next == CASE o.op = "add_unspent_transaction" ->
                           [wallet_state EXCEPT !.unspent_transactions = MapPut(@, o.pointer, o.output)]
                     [] o.op = "remove_unspent_transaction" ->
                           [wallet_state EXCEPT !.unspent_transactions = MapRemove(@, o.pointer)]
                     [] OTHER ->
                           [wallet_state EXCEPT !.balance = Coin_add_change(@, o.change.balance_change),
                                                !.transaction_history = Append(@, o.change)]
       IN apply_memento(next, Tail(memento))

\* the outputs of the first n transactions that no one of them spends
LedgerUnspent(n) == LedgerPointers(n) \ LedgerSpent(n)

\* the transaction has an output to the wallet or spends an output of it:
\* the transactions the enclave decrypts for the view key of the wallet
VisibleTo(wallet, id) ==
  \/ \E k \in 1..Len(ledger[id].outputs) : ledger[id].outputs[k].address \in transfer_addresses(wallet)
  \/ \E k \in 1..Len(ledger[id].inputs) : LedgerOutput(ledger[id].inputs[k]).address \in transfer_addresses(wallet)

\* the transactions of the blocks from + 1 .. to that the wallet is given
RECURSIVE VisibleIds(_, _, _)
VisibleIds(wallet, from, to) ==
  IF from >= to THEN <<>>
  ELSE (IF VisibleTo(wallet, from + 1) THEN <<from + 1>> ELSE <<>>) \o VisibleIds(wallet, from + 1, to)

WalletInit ==
  /\ ChainNotStarted
  /\ TrackerUnused
  /\ MilliUnused
  /\ WalletUnused
  /\ ClientUnused

\* what the wallets leave alone
wallet_frame == << chain_vars, tracker_vars, milli_vars, client_vars >>

\* a block with the transaction without inputs of the tests
LedgerMint ==
  /\ Len(ledger) < MaxLedger
  /\ \E to \in TransferAddrs :
       ledger' = Append(ledger, [inputs |-> <<>>, outputs |-> <<TxOut_new(to, MintValue)>>])
  /\ UNCHANGED << wallet_states, synced, wallet_call, wallet_frame >>

\* a block with a transfer that spends one or two unspent outputs, pays a
\* fee or none, and pays the rest to one address or half of it to one
\* address and the other half back to the owner of the first input
LedgerTransfer ==
  /\ Len(ledger) < MaxLedger
  /\ \E p \in LedgerUnspent(Len(ledger)), q \in LedgerUnspent(Len(ledger)), fee \in {0, TransferFee}, to \in TransferAddrs, split \in BOOLEAN :
       /\ 2 * p.id + p.index <= 2 * q.id + q.index
       /\ LET inputs == IF p = q THEN <<p>> ELSE <<p, q>>
              total == sum_outputs([k \in 1..Len(inputs) |-> LedgerOutput(inputs[k])])
              rest == total - fee
              outputs == IF split THEN << TxOut_new(to, rest \div 2), TxOut_new(LedgerOutput(p).address, rest - (rest \div 2)) >>
                                  ELSE << TxOut_new(to, rest) >>
          IN /\ rest >= 2
             /\ ledger' = Append(ledger, [inputs |-> inputs, outputs |-> outputs])
  /\ UNCHANGED << wallet_states, synced, wallet_call, wallet_frame >>

\* handle_batch of the syncer on the next n blocks: handle_blocks against the
\* stored wallet state, then save applies the memento
HandleBatch ==
  \E wallet \in Wallets, n \in 1..MaxBatch :
    LET from == synced[wallet]
        handled == handle_blocks(wallet, wallet_states[wallet], <<>>, VisibleIds(wallet, from, from + n))
    IN /\ from + n <= Len(ledger)
       /\ handled.ok
       /\ wallet_states' = [wallet_states EXCEPT ![wallet] = apply_memento(@, handled.memento)]
       /\ synced' = [synced EXCEPT ![wallet] = from + n]
       /\ wallet_call' = [op |-> "handle_batch", wallet |-> wallet, from |-> from, blocks |-> n, ok |-> TRUE]
       /\ UNCHANGED << ledger, wallet_frame >>

\* handle_batch when handle_blocks returns an error: nothing is saved
HandleBatchFails ==
  \E wallet \in Wallets, n \in 1..MaxBatch :
    LET from == synced[wallet]
        handled == handle_blocks(wallet, wallet_states[wallet], <<>>, VisibleIds(wallet, from, from + n))
    IN /\ from + n <= Len(ledger)
       /\ ~handled.ok
       /\ wallet_call' = [op |-> "handle_batch", wallet |-> wallet, from |-> from, blocks |-> n, ok |-> FALSE]
       /\ UNCHANGED << ledger, wallet_states, synced, wallet_frame >>

WalletNext ==
  \/ LedgerMint
  \/ LedgerTransfer
  \/ HandleBatch
  \/ HandleBatchFails

WalletSpec == WalletInit /\ [][WalletNext]_vars

\* the outputs of the wallet among the first n transactions of the ledger
\* that none of them spends
UnspentOf(wallet, n) == { p \in LedgerUnspent(n) : LedgerOutput(p).address \in transfer_addresses(wallet) }

\* the sum of the values of a set of ledger outputs
RECURSIVE ValueOf(_)
ValueOf(pointers) ==
  IF pointers = {} THEN 0
  ELSE LET p == CHOOSE x \in pointers : TRUE IN LedgerOutput(p).value + ValueOf(pointers \ {p})

\* the inputs of the transaction that spend outputs of the wallet
InputsOf(wallet, id) ==
  { k \in 1..Len(ledger[id].inputs) : LedgerOutput(ledger[id].inputs[k]).address \in transfer_addresses(wallet) }

\* the history entry records what the transaction is for the wallet
RecordedAsItIs(wallet, entry) ==
  LET id == entry.transaction_id
      tx == ledger[id]
      received == sum_outputs(outputs_of(wallet, tx.outputs))
      spent == sum_outputs([k \in 1..Len(tx.inputs) |-> LedgerOutput(tx.inputs[k])])
  IN /\ (InputsOf(wallet, id) = {} /\ received > 0) =>
           entry.balance_change = [kind |-> "Incoming", value |-> received]
     /\ (tx.inputs # <<>> /\ InputsOf(wallet, id) = 1..Len(tx.inputs)) =>
           /\ entry.balance_change.kind = "Outgoing"
           /\ entry.balance_change.fee = spent - sum_outputs(tx.outputs)

\* the blocks of the test: an output of MintValue to wallet 1, then a
\* transfer of it to wallet 2, both handled by both wallets
TxFlowHandled ==
  /\ Len(ledger) >= 2
  /\ ledger[1] = [inputs |-> <<>>, outputs |-> <<TxOut_new(1, MintValue)>>]
  /\ ledger[2] = [inputs |-> <<TxoPointer_new(1, 1)>>, outputs |-> <<TxOut_new(2, MintValue)>>]
  /\ synced = [w \in Wallets |-> 2]

\* C27: the unspent set and the balance of every wallet are those of the
\* blocks it has processed: its unspent outputs are the outputs to it that
\* no processed transaction spends, its balance is their sum, a transaction
\* with outputs to it and no input of it is recorded as incoming for their
\* sum, a transaction all of whose inputs are its outputs is recorded as
\* outgoing with fee = inputs - outputs; after an output of 100 to the first
\* wallet and its transfer to the second, the first has balance 0, no
\* unspent output and two history entries, the second balance 100 and one
\* unspent output
C27_WalletConsistentWithBlocks ==
  /\ \A w \in Wallets :
       LET st == wallet_states[w] IN
       /\ DOMAIN st.unspent_transactions = UnspentOf(w, synced[w])
       /\ st.balance = ValueOf(UnspentOf(w, synced[w]))
       /\ \A k \in 1..Len(st.transaction_history) : RecordedAsItIs(w, st.transaction_history[k])
  /\ TxFlowHandled =>
       /\ wallet_states[1].balance = 0
       /\ wallet_states[1].unspent_transactions = EmptyMap
       /\ Len(wallet_states[1].transaction_history) = 2
       /\ wallet_states[2].balance = MintValue
       /\ Cardinality(DOMAIN wallet_states[2].unspent_transactions) = 1

----------------------------------------------------------------------------
\* The jailing event of BeginBlock

\* the attributes of the jail_validators event of a BeginBlock response, in
\* order; none when the response carries no such event
JailingAttributes(response) ==
  LET at == {k \in DOMAIN response.events : response.events[k].type = "jail_validators"}
  IN IF at = {} THEN <<>> ELSE response.events[CHOOSE k \in at : TRUE].attributes

\* the accounts that are jailed in the trie `after` and were not in `before`
NewlyJailed(before, after) ==
  { a \in DOMAIN after : is_jailed(after[a]) /\ ~(a \in DOMAIN before /\ is_jailed(before[a])) }

\* C28: the jail_validators event of a BeginBlock has exactly one attribute
\* per account newly jailed in that block: no account is listed twice, and
\* an account that was jailed before the block is not listed
C28_JailEventListsNewlyJailedOnce ==
  [][Served("begin_block") =>
       LET attributes == JailingAttributes(resp')
       IN /\ \A i, j \in DOMAIN attributes : attributes[i] = attributes[j] => i = j
          /\ {attributes[i] : i \in DOMAIN attributes} = NewlyJailed(uncommitted_account_root_hash, uncommitted_account_root_hash')]_vars

----------------------------------------------------------------------------
\* Liveness samples recorded by BeginBlock

\* validators.punishment.validator_liveness of a stored state
Liveness(state) == Unwrap(state).punishment.validator_liveness

\* the tracker with the sample of a block replaced; the sample of block b
\* is the bit (b - 1) mod block_signing_window
WithSample(liveness, block, signed) == [i \in DOMAIN liveness |-> IF i = ((block - 1) % Len(liveness)) + 1 THEN signed ELSE liveness[i]]

\* C29: BeginBlock at height 1 changes no liveness tracker; BeginBlock at
\* height h > 1 records, for each vote whose validator has a tracker, the
\* signed_last_block flag of the vote as the sample of block h - 1 and
\* changes no other tracker; no tracker is added or removed, so a vote from
\* an address without a tracker changes nothing
C29_VotesRecordedForPreviousBlock ==
  [][Served("begin_block") =>
       LET h == Unwrap(last_state).last_block_height + 1
           before == Liveness(last_state)
           after == Liveness(last_state')
       IN /\ DOMAIN after = DOMAIN before
          /\ h = 1 => after = before
          /\ h > 1 => \A k \in DOMAIN before :
                        after[k] = IF k \in DOMAIN req'.votes THEN WithSample(before[k], h - 1, req'.votes[k]) ELSE before[k]]_vars

\* C29 witness: a BeginBlock above height 1 carried an unsigned vote of a
\* validator with a tracker and a vote of an address without one; the miss
\* is the sample of the previous block and there is still no second tracker
C29_MissRecordedUnknownVoteIgnored ==
  /\ resp.op = "begin_block"
  /\ ~halted
  /\ Unwrap(last_state).last_block_height >= 1
  /\ \E k \in DOMAIN req.votes \cap DOMAIN Liveness(last_state) :
       /\ ~req.votes[k]
       /\ Liveness(last_state)[k] = WithSample(Liveness(db_last_state)[k], Unwrap(last_state).last_block_height, FALSE)
       /\ Liveness(last_state)[k] # Liveness(db_last_state)[k]
  /\ \E k \in DOMAIN req.votes : k \notin DOMAIN Liveness(last_state)

----------------------------------------------------------------------------
\* Validator updates of EndBlock

\* the consensus key of the council node of a staking address in a state
CouncilKey(state, a) ==
  LET nodes == Unwrap(state).council_nodes
  IN nodes[CHOOSE i \in DOMAIN nodes : nodes[i].staking_account_address = a /\ \A j \in DOMAIN nodes : nodes[j].staking_account_address = a => j <= i].consensus_pubkey

\* the elements of a sequence
Range(seq) == {seq[i] : i \in DOMAIN seq}

\* C30: EndBlock emits one validator update (pubkey, power) for every entry
\* of power_changed_in_block and for nothing else, merges new_nodes_in_block
\* into council_nodes and empties both buffers; the buffers are empty when a
\* block begins, so that what an EndBlock emits was recorded in its own
\* block and is not emitted again by the EndBlock of a later block
C30_EndBlockEmitsPowerChangesOnce ==
  [][/\ Served("end_block") =>
          LET updates == resp'.validator_updates
          IN /\ Len(updates) = Cardinality(DOMAIN power_changed_in_block)
             /\ {updates[i].address : i \in DOMAIN updates} = DOMAIN power_changed_in_block
             /\ \A i \in DOMAIN updates :
                  /\ updates[i].power = power_changed_in_block[updates[i].address]
                  /\ updates[i].pub_key = CouncilKey(last_state', updates[i].address)
             /\ Len(Unwrap(last_state').council_nodes) = Len(Unwrap(last_state).council_nodes) + Cardinality(DOMAIN new_nodes_in_block)
             /\ Range(Unwrap(last_state').council_nodes) = Range(Unwrap(last_state).council_nodes) \cup Range(new_nodes_in_block)
             /\ power_changed_in_block' = EmptyMap
             /\ new_nodes_in_block' = EmptyMap
     /\ Served("begin_block") =>
          /\ power_changed_in_block = EmptyMap
          /\ new_nodes_in_block = EmptyMap]_vars

\* C30 witness: an EndBlock emitted the power of a node that joined in its
\* block; the node is a council node now and the buffers are empty
C30_JoinedNodeEmitted ==
  /\ resp.op = "end_block"
  /\ ~halted
  /\ \E i \in DOMAIN resp.validator_updates :
       /\ resp.validator_updates[i].power > 0
       /\ \E j \in DOMAIN Unwrap(last_state).council_nodes :
            /\ Unwrap(last_state).council_nodes[j].staking_account_address = resp.validator_updates[i].address
            /\ j \notin DOMAIN Unwrap(db_last_state).council_nodes
  /\ power_changed_in_block = EmptyMap
  /\ new_nodes_in_block = EmptyMap

----------------------------------------------------------------------------
\* The fee credited to the rewards pool by DeliverTx

\* the result of validate_tx_req for the transaction a DeliverTx step delivers
DeliveredValidation == validate_tx_req(req'.tx, req'.sgx_ok)

\* the step is a DeliverTx whose transaction the validation accepts
AcceptsDeliverTx ==
  /\ req'.op = "deliver_tx"
  /\ ~halted
  /\ ~DeliveredValidation.panic
  /\ DeliveredValidation.code = 0
  /\ DeliveredValidation.ok

----------------------------------------------------------------------------
\* Deposits through the enclave bridge

\* the ChainInfo of the validation of a delivered transaction
DeliveredInfo(tx) ==
  ChainInfo(Unwrap(last_state), calculate_fee(Unwrap(last_state).network_params, TxLen(tx)))

\* the step delivers a deposit while a block is in progress
DeliversDeposit ==
  /\ req'.op = "deliver_tx"
  /\ req'.tx.kind = "DepositStakeTx"
  /\ ~halted
  /\ IsSome(last_state)

\* C32: an accepted DepositStakeTx reports the computed minimum fee and
\* leaves an account whose bonded balance is credited by exactly
\* input_coins - fee: the prior account with the deposit added when there is
\* one, else a new account of the target address bonded with that amount;
\* whatever input_coins the enclave reports, the bridge accepts no deposit
\* with input_coins below the fee
C32_DepositCreditsInputsMinusFee ==
  [][DeliversDeposit =>
       LET tx == req'.tx
           to == tx.to_staked_account
           chain_info == DeliveredInfo(tx)
           fee == chain_info.min_fee_computed
           prior == get_account(to, uncommitted_account_root_hash)
       IN /\ (Served("deliver_tx") /\ resp'.code = 0) =>
               LET after == uncommitted_account_root_hash'[to]
                   amount == InputCoins(tx.inputs) - fee
               IN /\ amount >= 0
                  /\ ReportedFee(resp') = fee
                  /\ IF IsSome(prior)
                     THEN /\ after.bonded = Unwrap(prior).bonded + amount
                          /\ after.unbonded = Unwrap(prior).unbonded
                          /\ after.council_node = Unwrap(prior).council_node
                     ELSE after = new_init_bonded(amount, chain_info.previous_block_time, to, None)
          /\ \A input_coins \in 0..MAX_COIN :
               LET bridged == check_tx(tx, chain_info, prior, [tag |-> "DepositStakeTx", input_coins |-> input_coins], txdb)
               IN /\ bridged.ok => input_coins >= fee
                  /\ input_coins < fee => ~bridged.ok]_vars

\* C32 witness: a deposit of two outputs to an address without an account
\* was accepted: the fee is 1 and the new account is bonded with 1
C32_DepositToNewAccount ==
  /\ resp.op = "deliver_tx"
  /\ ~halted
  /\ resp.code = 0
  /\ req.tx.kind = "DepositStakeTx"
  /\ req.tx.to_staked_account = FreshAddr
  /\ InputCoins(req.tx.inputs) = 2
  /\ ReportedFee(resp) = 1
  /\ uncommitted_account_root_hash[FreshAddr].bonded = 1

----------------------------------------------------------------------------
\* The spend bits written by DeliverTx

\* the spend bitsets as the store returns them: the buffered writes over the
\* persisted ones
SpendMap == [id \in (DOMAIN db_tx_meta) \cup (DOMAIN db_buffered) |-> Unwrap(db_get(id))]

\* the step delivers a transfer or a deposit that is accepted
AcceptsSpend ==
  /\ Served("deliver_tx")
  /\ resp'.code = 0
  /\ req'.tx.kind \in {"TransferTx", "DepositStakeTx"}

\* C33: after an accepted TransferTx or DepositStakeTx with inputs I, the
\* buffered bitset of each referenced tx id has the bit of every pointer of
\* I set, also when several inputs share one tx id, and every other bit of
\* every bitset is as before; no request clears a spend bit
C33_SpendBitsSetAndKept ==
  [][/\ AcceptsSpend =>
          /\ DOMAIN SpendMap' = DOMAIN SpendMap
          /\ \A p \in req'.tx.inputs : p.id \in DOMAIN db_buffered' /\ db_buffered'[p.id][p.index + 1]
          /\ \A id \in DOMAIN SpendMap : \A i \in DOMAIN SpendMap[id] :
               SpendMap'[id][i] = (SpendMap[id][i] \/ TxoPointer(id, i - 1) \in req'.tx.inputs)
     /\ (req'.op \notin {"none", "startup"} /\ ~halted') =>
          \A id \in DOMAIN SpendMap :
            /\ id \in DOMAIN SpendMap'
            /\ \A i \in DOMAIN SpendMap[id] : SpendMap[id][i] => SpendMap'[id][i]]_vars

\* C33 witness: an accepted transaction spent two outputs of one
\* transaction and both bits are set in the buffered bitset
C33_TwoInputsOfOneTx ==
  /\ resp.op = "deliver_tx"
  /\ ~halted
  /\ resp.code = 0
  /\ req.tx.kind \in {"TransferTx", "DepositStakeTx"}
  /\ \E p, q \in req.tx.inputs :
       /\ p.id = q.id
       /\ p.index # q.index
       /\ p.id \in DOMAIN db_buffered
       /\ db_buffered[p.id][p.index + 1]
       /\ db_buffered[p.id][q.index + 1]
       /\ ~db_tx_meta[p.id][p.index + 1]
       /\ ~db_tx_meta[p.id][q.index + 1]

----------------------------------------------------------------------------
\* The voting power recorded for the block and the bonded amount

\* C36: when a block ends, each entry of power_changed_in_block of an
\* account that is not jailed is zero or the bonded amount the account has
\* after the last accepted transaction of the block; a node join followed in
\* the same block by an unbond of the same account does not leave the bonded
\* amount of the join as the emitted voting power
C36_RecordedPowerIsBondedOrZero ==
  [][Served("end_block") =>
       \A a \in DOMAIN power_changed_in_block :
         ~is_jailed(uncommitted_account_root_hash[a]) =>
           \/ power_changed_in_block[a] = 0
           \/ power_changed_in_block[a] = uncommitted_account_root_hash[a].bonded]_vars


\* C40: Milli::sqrt returns for every input value: no estimate it divides by
\* is zero, no step aborts, and the loop ends with two successive estimates
\* at most 1 milli apart.
C40_SqrtTerminatesForEveryInput ==
  milli_call.op = "sqrt" =>
    /\ milli_call.result.outcome = "ok"
    /\ Milli_diff(milli_call.result.value, improve_sqrt(milli_a, milli_call.result.value, overflow_checks).value) <= 1


----------------------------------------------------------------------------
\* WebsocketRpcClient on its own: the monitor thread, the websocket loop
\* threads, one requesting thread, and the server behind the connections.
\* Connection n is read by loop thread n. Request ids are the numbers of the
\* requests (prepare_message draws a fresh random id for each).

\* the requests made over the whole history
MaxRequests == 3
\* the connections opened over the whole history, the first one included
MaxConnections == 3
\* the requests of one request_batch
MaxBatchSize == 2

\* what the websocket client leaves alone
ws_frame == << chain_vars, tracker_vars, milli_vars, wallet_vars, sync_vars >>

WsInit ==
  /\ ChainNotStarted
  /\ TrackerUnused
  /\ MilliUnused
  /\ WalletUnused
  /\ WsUnused
  /\ SyncUnused

\* the ids of a batch from position at on
BatchFrom(batch, at) == { batch[i] : i \in at..Len(batch) }

\* a faulty monitor: a failed reconnect is stored as Connected
MonitorMatch_connected_on_failure ==
  /\ monitor_pc = "match"
  /\ IF connection_state = "Disconnected"
     THEN \/ /\ new_connection_state' = "Connected"
             /\ new_connection_handle' = None
             /\ monitor_pc' = "store"
             /\ UNCHANGED << loop_threads, websocket_writer >>
          \/ /\ Len(loop_threads) < MaxConnections
             /\ websocket_writer' = Len(loop_threads) + 1
             /\ loop_threads' = Append(loop_threads, "running")
             /\ new_connection_state' = "Connected"
             /\ new_connection_handle' = Some(Len(loop_threads) + 1)
             /\ monitor_pc' = "store"
     ELSE IF connection_handle = None
          THEN /\ monitor_pc' = "panicked"
               /\ UNCHANGED << new_connection_state, new_connection_handle, loop_threads, websocket_writer >>
          ELSE /\ loop_threads[Unwrap(connection_handle)] # "running"
               /\ new_connection_state' = "Disconnected"
               /\ new_connection_handle' = None
               /\ monitor_pc' = "store"
               /\ UNCHANGED << loop_threads, websocket_writer >>
  /\ UNCHANGED << connection_state, connection_handle, loop_sender, channel_map, receivers, channels, wire, requester, next_id, ws_call, ws_frame >>

\* monitor, the match on the connection state: Disconnected tries
\* new_connection and on success replaces the writer and spawns a loop
\* thread; Connected joins the loop thread behind connection_handle (unwrap
\* of a missing handle aborts the monitor)
MonitorMatch ==
  /\ monitor_pc = "match"
  /\ IF connection_state = "Disconnected"
     THEN \/ /\ new_connection_state' = "Disconnected"
             /\ new_connection_handle' = None
             /\ monitor_pc' = "store"
             /\ UNCHANGED << loop_threads, websocket_writer >>
          \/ /\ Len(loop_threads) < MaxConnections
             /\ websocket_writer' = Len(loop_threads) + 1
             /\ loop_threads' = Append(loop_threads, "running")
             /\ new_connection_state' = "Connected"
             /\ new_connection_handle' = Some(Len(loop_threads) + 1)
             /\ monitor_pc' = "store"
     ELSE IF connection_handle = None
          THEN /\ monitor_pc' = "panicked"
               /\ UNCHANGED << new_connection_state, new_connection_handle, loop_threads, websocket_writer >>
          ELSE /\ loop_threads[Unwrap(connection_handle)] # "running"
               /\ new_connection_state' = "Disconnected"
               /\ new_connection_handle' = None
               /\ monitor_pc' = "store"
               /\ UNCHANGED << loop_threads, websocket_writer >>
  /\ UNCHANGED << connection_state, connection_handle, loop_sender, channel_map, receivers, channels, wire, requester, next_id, ws_call, ws_frame >>

\* monitor, the end of a turn: the computed state and handle are stored
MonitorStore ==
  /\ monitor_pc = "store"
  /\ connection_state' = new_connection_state
  /\ connection_handle' = new_connection_handle
  /\ monitor_pc' = "match"
  /\ UNCHANGED << new_connection_state, new_connection_handle, loop_threads, loop_sender, websocket_writer, channel_map, receivers, channels, wire, requester, next_id, ws_call, ws_frame >>

\* loop thread n reads the response to request id and send_response removes
\* its sender from channel_map; without a sender the response is dropped
LoopTake(n, id) ==
  /\ loop_threads[n] = "running"
  /\ loop_sender = None
  /\ [id |-> id, conn |-> n] \in wire
  /\ wire' = wire \ {[id |-> id, conn |-> n]}
  /\ IF id \in channel_map
     THEN /\ channel_map' = channel_map \ {id}
          /\ loop_sender' = Some(id)
          /\ UNCHANGED ws_call
     ELSE /\ ws_call' = [op |-> "send_response", id |-> id, outcome |-> "no_handler"]
          /\ UNCHANGED << channel_map, loop_sender >>
  /\ UNCHANGED << monitor_vars, loop_threads, websocket_writer, receivers, channels, requester, next_id, ws_frame >>

\* send_response, sender.send(response).expect(..): the response is put in
\* the channel; with the Receiver dropped send fails and the thread panics
LoopSend(n) ==
  /\ loop_threads[n] = "running"
  /\ IsSome(loop_sender)
  /\ LET id == Unwrap(loop_sender)
     IN IF id \in receivers
        THEN /\ channels' = channels \cup {id}
             /\ ws_call' = [op |-> "send_response", id |-> id, outcome |-> "sent"]
             /\ UNCHANGED loop_threads
        ELSE /\ loop_threads' = [loop_threads EXCEPT ![n] = "panicked"]
             /\ ws_call' = [op |-> "send_response", id |-> id, outcome |-> "panic"]
             /\ UNCHANGED channels
  /\ loop_sender' = None
  /\ UNCHANGED << monitor_vars, websocket_writer, channel_map, receivers, wire, requester, next_id, ws_frame >>

\* loop thread n reads an error from its connection and leaves the loop
LoopConnectionError(n) ==
  /\ loop_threads[n] = "running"
  /\ loop_sender = None
  /\ loop_threads' = [loop_threads EXCEPT ![n] = "ended"]
  /\ wire' = { m \in wire : m.conn # n }
  /\ UNCHANGED << monitor_vars, loop_sender, websocket_writer, channel_map, receivers, channels, requester, next_id, ws_call, ws_frame >>

\* request (k = 1) or request_batch (k > 1) is called
StartRequest(k) ==
  /\ requester.pc = "idle"
  /\ next_id + k <= MaxRequests
  /\ requester' = [pc |-> "sending", batch |-> [i \in 1..k |-> next_id + i], at |-> 1]
  /\ next_id' = next_id + k
  /\ UNCHANGED << monitor_vars, loop_threads, loop_sender, websocket_writer, channel_map, receivers, channels, wire, ws_call, ws_frame >>

\* send_request of the next request of the batch: the sender is inserted in
\* channel_map; ensure_connected fails when the state stays Disconnected;
\* send_message writes to the connection or fails, and then the id is
\* removed again. An error returns from the call and drops its receivers.
SendRequest ==
  /\ requester.pc = "sending"
  /\ LET id == requester.batch[requester.at]
     IN \/ /\ connection_state = "Connected"
           /\ wire' = wire \cup {[id |-> id, conn |-> websocket_writer]}
           /\ channel_map' = channel_map \cup {id}
           /\ receivers' = receivers \cup {id}
           /\ requester' = IF requester.at < Len(requester.batch)
                           THEN [requester EXCEPT !.at = requester.at + 1]
                           ELSE [requester EXCEPT !.pc = "receiving", !.at = 1]
        \/ /\ connection_state = "Disconnected"
           /\ channel_map' = channel_map \cup {id}
           /\ receivers' = receivers \ BatchFrom(requester.batch, 1)
           /\ requester' = Idle
           /\ UNCHANGED wire
        \/ /\ connection_state = "Connected"
           /\ receivers' = receivers \ BatchFrom(requester.batch, 1)
           /\ requester' = Idle
           /\ UNCHANGED << wire, channel_map >>
  /\ UNCHANGED << monitor_vars, loop_threads, loop_sender, websocket_writer, channels, next_id, ws_call, ws_frame >>

\* receive_response, the response is in the channel before the timeout; an
\* error response returns from the call and drops the receivers left
ReceiveResponse ==
  /\ requester.pc = "receiving"
  /\ LET id == requester.batch[requester.at]
     IN /\ id \in channels
        /\ \E rpc_error \in BOOLEAN :
             IF ~rpc_error /\ requester.at < Len(requester.batch)
             THEN /\ requester' = [requester EXCEPT !.at = requester.at + 1]
                  /\ receivers' = receivers \ {id}
                  /\ channels' = channels \ {id}
             ELSE /\ requester' = Idle
                  /\ receivers' = receivers \ BatchFrom(requester.batch, requester.at)
                  /\ channels' = channels \ BatchFrom(requester.batch, requester.at)
  /\ UNCHANGED << monitor_vars, loop_threads, loop_sender, websocket_writer, channel_map, wire, next_id, ws_call, ws_frame >>

\* receive_response, recv_timeout returns without a response
ResponseTimeout ==
  /\ requester.pc = "receiving"
  /\ requester.batch[requester.at] \notin channels
  /\ requester' = [requester EXCEPT !.pc = "timed_out"]
  /\ UNCHANGED << monitor_vars, loop_threads, loop_sender, websocket_writer, channel_map, receivers, channels, wire, next_id, ws_call, ws_frame >>

\* receive_response after the timeout: the id is removed from channel_map,
\* the call returns the error and the receivers left are dropped
TimeoutCleanup ==
  /\ requester.pc = "timed_out"
  /\ channel_map' = channel_map \ {requester.batch[requester.at]}
  /\ receivers' = receivers \ BatchFrom(requester.batch, requester.at)
  /\ channels' = channels \ BatchFrom(requester.batch, requester.at)
  /\ requester' = Idle
  /\ UNCHANGED << monitor_vars, loop_threads, loop_sender, websocket_writer, wire, next_id, ws_call, ws_frame >>

WsNext ==
  \/ MonitorMatch
  \/ MonitorStore
  \/ \E n \in 1..MaxConnections, id \in 1..MaxRequests : n <= Len(loop_threads) /\ LoopTake(n, id)
  \/ \E n \in 1..MaxConnections : n <= Len(loop_threads) /\ LoopSend(n)
  \/ \E n \in 1..MaxConnections : n <= Len(loop_threads) /\ LoopConnectionError(n)
  \/ \E k \in 1..MaxBatchSize : StartRequest(k)
  \/ SendRequest
  \/ ReceiveResponse
  \/ ResponseTimeout
  \/ TimeoutCleanup

WsSpec == WsInit /\ [][WsNext]_vars


\* the monitor holds the handle of a loop thread whenever the state it is
\* about to match, or has just stored, is Connected, and never aborts
MonitorHoldsHandle ==
  /\ monitor_pc # "panicked"
  /\ connection_state = "Connected" => IsSome(connection_handle)

\* the steps of the monitor's state machine
MonitorTransitions ==
  /\ (connection_state = "Connected" /\ connection_state' = "Disconnected") =>
       /\ IsSome(connection_handle)
       /\ loop_threads[Unwrap(connection_handle)] # "running"
       /\ connection_handle' = None
  /\ (connection_state = "Disconnected" /\ connection_state' = "Connected") =>
       /\ connection_handle = None
       /\ connection_handle' = Some(Len(loop_threads))
       /\ websocket_writer = Len(loop_threads)
       /\ Len(loop_threads) > 1
       /\ \A n \in 1..(Len(loop_threads) - 1) : loop_threads[n] # "running"
  /\ (connection_state = "Disconnected" /\ monitor_pc = "match" /\ loop_threads' = loop_threads /\ monitor_pc' # monitor_pc) =>
       /\ new_connection_state' = "Disconnected"
       /\ monitor_pc' = "store"
  /\ (connection_state = "Disconnected" /\ monitor_pc = "store" /\ new_connection_state = "Disconnected" /\ monitor_pc' # monitor_pc) =>
       /\ connection_state' = "Disconnected"
       /\ connection_handle' = None
       /\ monitor_pc' = "match"

\* C34: the monitor moves from Connected to Disconnected only after the loop
\* thread it holds has ended, and from Disconnected to Connected only after
\* a reconnect that replaced the writer and spawned a new loop thread; a
\* failed reconnect leaves it Disconnected and back at the match; whenever
\* the state is Connected the monitor holds a handle and never joins a
\* missing one.
C34_MonitorTwoStateMachine == []MonitorHoldsHandle /\ [][MonitorTransitions]_vars

\* C34 witness: after a failed reconnect the second connection is up, the
\* monitor holds the handle of its loop thread, the first thread has ended
C34_Reconnected ==
  /\ connection_state = "Connected"
  /\ connection_handle = Some(2)
  /\ websocket_writer = 2
  /\ loop_threads = << "ended", "running" >>
  /\ monitor_pc = "match"

\* C37: a response that reaches the loop thread when the Receiver of its
\* request is dropped (the requester timed out or its batch was aborted) is
\* discarded: the loop thread keeps running, under every interleaving.
C37_LateResponseDiscarded ==
  [][\A n \in DOMAIN loop_threads : (LoopSend(n) /\ Unwrap(loop_sender) \notin receivers) => loop_threads'[n] = "running"]_vars


----------------------------------------------------------------------------
\* AutoSynchronizerCore on its own: the loop of start() takes a message from
\* its channel, or none when the receive times out, parses it and polls.
\* The wallets are keyed by name and get_current_wallet indexes the sorted
\* names. The node's replies, the block events, the wallet commands and the
\* opening and closing of the send queue are the environment.

\* the largest height the node reports
MaxSyncHeight == 2

\* what the auto-synchronizer leaves alone
sync_frame == << chain_vars, tracker_vars, milli_vars, wallet_vars, ws_vars >>

SyncInit ==
  /\ ChainNotStarted
  /\ TrackerUnused
  /\ MilliUnused
  /\ WalletUnused
  /\ WsUnused
  /\ SyncUnused

\* the core and the storage during one turn: failed is the Err of the call
\* in progress, sent and handed are what the turn sent to the node and
\* handed to the block handler
World == [state |-> core.state, max_height |-> core.max_height, wallets |-> core.wallets, current_wallet |-> core.current_wallet, heights |-> heights, sent |-> <<>>, handed |-> <<>>, failed |-> FALSE, panicked |-> FALSE]

\* a failed assert!, expect or unwrap
Panicked(w) == [w EXCEPT !.panicked = TRUE]

\* the condition of the assert! in get_current_wallet
HasCurrentWallet(w) == w.current_wallet < Cardinality(w.wallets)

\* get_current_wallet: the name at index current_wallet of the sorted keys
get_current_wallet(w) == CHOOSE n \in w.wallets : Cardinality({m \in w.wallets : m < n}) = w.current_wallet

\* get_current_height: the stored last_block_height of the current wallet
get_current_height(w) == w.heights[get_current_wallet(w)]

\* BlockHandler::on_next: the block is handled and its height becomes the
\* wallet's last_block_height
on_next(w, name, block_height) == [w EXCEPT !.heights[name] = block_height, !.handed = Append(@, << name, block_height >>)]

\* write_block: the block results are fetched and the header is handed to
\* the block handler; an error is returned to the caller
write_block(w, block_height, written) ==
  IF written THEN on_next(w, get_current_wallet(w), block_height) ELSE [w EXCEPT !.failed = TRUE]

\* a faulty do_save_block_to_chain: every block above the stored height is written
do_save_block_to_chain_ahead(w, height, written) ==
  IF w.wallets = {} THEN w
  ELSE IF ~HasCurrentWallet(w) THEN Panicked(w)
  ELSE IF height <= get_current_height(w) THEN w
  ELSE write_block([w EXCEPT !.max_height = IF height > @ THEN height ELSE @], height, written)

\* do_save_block_to_chain: only the block after the stored height is written
do_save_block_to_chain(w, height, written) ==
  IF w.wallets = {} THEN w
  ELSE IF ~HasCurrentWallet(w) THEN Panicked(w)
  ELSE IF height # get_current_height(w) + 1 THEN w
  ELSE write_block([w EXCEPT !.max_height = IF height > @ THEN height ELSE @], height, written)

change_to_wait(w) == [w EXCEPT !.state = "WaitProcess"]

\* a faulty change_wallet: the index stays
change_wallet_staying(w) ==
  IF w.wallets = {} THEN Panicked([w EXCEPT !.current_wallet = @ + 1])
  ELSE [w EXCEPT !.current_wallet = @ % Cardinality(w.wallets)]

\* change_wallet: the next index, modulo the number of wallets
change_wallet(w) ==
  IF w.wallets = {} THEN Panicked([w EXCEPT !.current_wallet = @ + 1])
  ELSE [w EXCEPT !.current_wallet = (@ + 1) % Cardinality(w.wallets)]

\* prepare_get_blocks: the reported height becomes max_height
prepare_get_blocks(w, height) ==
  LET reported == [w EXCEPT !.max_height = height]
  IN IF ~HasCurrentWallet(reported) THEN Panicked(reported)
     ELSE IF get_current_height(reported) < height THEN [reported EXCEPT !.state = "GetBlocks"]
     ELSE change_wallet(change_to_wait(reported))

\* the request for the node's status / for the block at a height
StatusRequest == 0
BlockRequest(height) == height

\* check_status: without a send queue nothing happens, a failed send returns
\* the error
check_status(w, can_send) ==
  IF ~can_send THEN w
  ELSE [w EXCEPT !.sent = Append(@, StatusRequest), !.state = "GetStatus"]

\* send_request_block: the block after the stored height is requested
send_request_block(w, can_send) ==
  IF ~can_send THEN w
  ELSE IF ~HasCurrentWallet(w) THEN Panicked(w)
  ELSE [w EXCEPT !.sent = Append(@, BlockRequest(get_current_height(w) + 1))]

\* polling_get_blocks; elapsed: BLOCK_REQUEST_TIME has passed
polling_get_blocks(w, elapsed, can_send) ==
  IF ~elapsed THEN w
  ELSE IF ~HasCurrentWallet(w) THEN Panicked(w)
  ELSE IF get_current_height(w) < w.max_height THEN send_request_block(w, can_send)
  ELSE change_wallet(change_to_wait(w))

\* polling; elapsed: the waiting time of the state has passed
polling(w, elapsed, can_send) ==
  IF w.panicked THEN w
  ELSE CASE w.state = "ReadyProcess" -> IF w.wallets # {} THEN check_status(w, can_send) ELSE w
         [] w.state = "WaitProcess" -> IF elapsed THEN [w EXCEPT !.state = "ReadyProcess"] ELSE w
         [] w.state = "GetStatus" -> w
         [] w.state = "GetBlocks" -> polling_get_blocks(w, elapsed, can_send)

\* the messages of the core's channel; a block_reply of height 0 carries no block
NoMessage == [id |-> "none", name |-> 0, height |-> 0]
Commands == { [id |-> i, name |-> n, height |-> 0] : i \in {"add_wallet", "remove_wallet"}, n \in SyncWallets } \cup { [id |-> "restart", name |-> 0, height |-> 0] }
BlockEvents == { [id |-> "subscribe_reply#event", name |-> 0, height |-> h] : h \in 1..MaxSyncHeight }
Replies == { [id |-> "status_reply", name |-> 0, height |-> h] : h \in 0..MaxSyncHeight } \cup { [id |-> "block_reply", name |-> 0, height |-> h] : h \in 0..MaxSyncHeight }

\* do_parse
do_parse(w, message, written) ==
  CASE message.id = "restart" -> [w EXCEPT !.state = "ReadyProcess"]
    [] message.id = "add_wallet" -> [w EXCEPT !.wallets = @ \cup {message.name}]
    [] message.id = "remove_wallet" -> [w EXCEPT !.wallets = @ \ {message.name}]
    [] message.id = "subscribe_reply#event" -> do_save_block_to_chain(w, message.height, written)
    [] message.id = "status_reply" -> prepare_get_blocks(w, message.height)
    [] message.id = "block_reply" ->
         IF message.height = 0 THEN change_to_wait(w)
         ELSE IF ~HasCurrentWallet(w) THEN Panicked(w)
         ELSE LET saved == do_save_block_to_chain(w, message.height, written)
              IN IF saved.panicked \/ saved.failed THEN saved
                 ELSE IF get_current_height(saved) >= saved.max_height THEN change_to_wait(saved)
                 ELSE saved
    [] OTHER -> w

\* the results of write_block for the block of a message
WriteResults(message) == IF message.height > 0 /\ message.id \in {"subscribe_reply#event", "block_reply"} THEN BOOLEAN ELSE {TRUE}

\* the request a reply answers
Answered(message) ==
  CASE message.id = "status_reply" -> {StatusRequest}
    [] message.id = "block_reply" -> { r \in outstanding : r # StatusRequest /\ (message.height = 0 \/ message.height = r) }
    [] OTHER -> {}

\* one turn of the loop of start(): a message is parsed, if one is there,
\* and polling runs. A send that fails returns before the core changes, as
\* a send without a queue does.
Turn(message, written, elapsed) ==
  /\ ~core_halted
  /\ message \in Replies => Answered(message) # {} /\ Answered(message) \subseteq outstanding
  /\ LET parsed == do_parse(World, message, written)
         polled == polling([parsed EXCEPT !.failed = FALSE], elapsed, queue)
     IN /\ core' = [state |-> polled.state, max_height |-> polled.max_height, wallets |-> polled.wallets, current_wallet |-> polled.current_wallet]
        /\ heights' = polled.heights
        /\ core_halted' = polled.panicked
        /\ outstanding' = (outstanding \ (IF message.id = "block_reply" THEN {CHOOSE r \in Answered(message) : TRUE} ELSE Answered(message))) \cup { polled.sent[i] : i \in 1..Len(polled.sent) }
        /\ sync_call' = [op |-> "turn", message |-> message, elapsed |-> elapsed, can_send |-> queue, sent |-> polled.sent, handed |-> polled.handed]
  /\ UNCHANGED << queue, sync_frame >>

\* the network thread opens the connection and sets the send queue
OpenQueue ==
  /\ ~queue
  /\ queue' = TRUE
  /\ UNCHANGED << core, heights, outstanding, core_halted, sync_call, sync_frame >>

\* close_connection: the send queue is cleared; the requests on the closed
\* connection are not answered
CloseQueue ==
  /\ queue
  /\ queue' = FALSE
  /\ outstanding' = {}
  /\ UNCHANGED << core, heights, core_halted, sync_call, sync_frame >>

SyncNext ==
  \/ \E message \in {NoMessage} \cup Commands \cup BlockEvents \cup Replies, elapsed \in BOOLEAN : \E written \in WriteResults(message) : Turn(message, written, elapsed)
  \/ OpenQueue
  \/ CloseQueue

SyncSpec == SyncInit /\ [][SyncNext]_vars


\* a turn of the core's loop that parsed a message with one of the ids
TurnOn(ids) == queue' = queue /\ ~core_halted /\ sync_call'.op = "turn" /\ sync_call'.message.id \in ids

\* a turn without a message in which polling_get_blocks runs after the
\* request interval, with a current wallet
PollingGetBlocksRuns ==
  /\ TurnOn({"none"})
  /\ sync_call'.elapsed
  /\ core.state = "GetBlocks"
  /\ HasCurrentWallet(World)

\* the complete branch of polling_get_blocks: WaitProcess and the next wallet
NextWalletInTurn ==
  /\ core'.state = "WaitProcess"
  /\ core'.current_wallet = (core.current_wallet + 1) % Cardinality(core.wallets)
  /\ sync_call'.sent = <<>>

HeightsMoveByHandedBlocks ==
  \A n \in SyncWallets :
    heights'[n] # heights[n] => heights'[n] = heights[n] + 1 /\ sync_call'.handed = << << n, heights'[n] >> >>

\* a turn that received a block: it is handed over only when it is the block
\* after the stored height of the current wallet; any other block changes
\* neither max_height nor the stored heights
BlockHandedInOrder ==
  TurnOn({"subscribe_reply#event", "block_reply"}) /\ sync_call'.message.height > 0 =>
    LET height == sync_call'.message.height
    IN /\ sync_call'.handed # <<>> =>
            /\ HasCurrentWallet(World)
            /\ height = get_current_height(World) + 1
            /\ sync_call'.handed = << << get_current_wallet(World), height >> >>
            /\ heights' = [heights EXCEPT ![get_current_wallet(World)] = height]
       /\ (HasCurrentWallet(World) /\ height # get_current_height(World) + 1) =>
            /\ sync_call'.handed = <<>>
            /\ heights' = heights
            /\ core'.max_height = core.max_height
            /\ core'.wallets = core.wallets

\* C38: a received block is handed to the block handler only if its height
\* is the stored height of the current wallet plus one, so each wallet
\* receives its blocks in height order without gaps or repeats; any other
\* block is dropped without changing max_height or the wallet state.
C38_BlocksHandedInHeightOrder == [][HeightsMoveByHandedBlocks /\ BlockHandedInOrder]_vars

\* C38 witness: the second wallet is current, has handled block 1 and is
\* handed block 2 by a block reply
C38_SecondBlockOfSecondWallet ==
  /\ sync_call.op = "turn"
  /\ sync_call.message = [id |-> "block_reply", name |-> 0, height |-> 2]
  /\ sync_call.handed = << << 2, 2 >> >>
  /\ heights[2] = 2
  /\ core.wallets = SyncWallets

\* C39: the assertion in get_current_wallet never fails: the thread of the
\* core never panics, whatever wallets are added and removed and whatever
\* replies are outstanding.
C39_CurrentWalletAlwaysFound == ~core_halted

====
